---- MODULE Spec2Model ----
(***************************************************************************)
(* One LoRa node of the firmware in src/src/main.cpp: its radio-parameter  *)
(* store, the config-sync broadcast, the boot-time control-channel         *)
(* rendezvous and the LoRa OTA receive session.                            *)
(*                                                                         *)
(* Numbers.  The float parameters (frequency in MHz, bandwidth in kHz) are *)
(* fixed-point hundredths: 915.0 MHz is 91500, 62.5 kHz is 6250.  The one  *)
(* value that printf's rounding meets half-way, 62.5, is exact in binary   *)
(* floating point, so the tie is a real tie.  The millisecond clock and    *)
(* the timestamps are unsigned words that wrap.                            *)
(***************************************************************************)
EXTENDS Integers, Sequences, FiniteSets, TLC

VARIABLES
  pc,                     \* "boot": before setup(); "loop": in loop(); "halt": radio init failed
  build,                  \* compile-time flags [wifiOta, roleSender]
  millis,                 \* millis() at the start of the next loop() iteration
  setupEnd,               \* history: millis() when setup() returned
  boots,                  \* history: power cycles so far
  presses,                \* history: button presses since setup()
  frames,                 \* history: frames received in loop() since setup()
  pings,                  \* history: PING attempts made since power-on
  isSender, seq,
  lastButtonState, buttonPressMs, buttonPressed,
  currentFreq, currentBW, currentSF, currentCR, currentTxPower,
  currentSfIndex, currentBwIndex, currentTxIndex,
  pendingConfigBroadcast, pendingFreq, pendingBW, pendingSF, pendingCR,
  pendingTxPower, cfgLastTxMs, cfgRemaining,
  lastTxMs, lastRxMs,     \* the static locals of loop()
  loraOtaActive, loraOtaStartTime, loraOtaTimeout, loraOtaBufferSize,
  loraOtaExpectedSize, loraOtaReceivedSize,
  hasStoredFirmware, storedFirmwareSize,
  prefs,                  \* the "LtngDet" Preferences namespace: key -> value or Absent
  radio,                  \* the live configuration of the SX1262
  obs,                    \* what the last step did: frames sent, frame handled, ...
  otaAnnounced,           \* history: size given by the session's valid OTA_START
  otaCarried,             \* history: payload bytes carried by the session's OTA_DATA frames
  rt                      \* the format/parse round trip of one CFG message

vars == <<pc, build, millis, setupEnd, boots, presses, frames, pings, isSender, seq, lastButtonState, buttonPressMs,
          buttonPressed, currentFreq, currentBW, currentSF, currentCR,
          currentTxPower, currentSfIndex, currentBwIndex, currentTxIndex,
          pendingConfigBroadcast, pendingFreq, pendingBW, pendingSF, pendingCR,
          pendingTxPower, cfgLastTxMs, cfgRemaining, lastTxMs, lastRxMs,
          loraOtaActive, loraOtaStartTime, loraOtaTimeout, loraOtaBufferSize,
          loraOtaExpectedSize, loraOtaReceivedSize, hasStoredFirmware,
          storedFirmwareSize, prefs, radio, obs, otaAnnounced, otaCarried, rt>>

----------------------------------------------------------------------------
(* Program constants *)

LORA_FREQ_MHZ == 91500
LORA_BW_KHZ == 12500
LORA_SF == 9
LORA_CR == 5
LORA_TX_DBM == 17
CTRL_FREQ_MHZ == LORA_FREQ_MHZ
CTRL_BW_KHZ == 12500
CTRL_SF == 9
CTRL_CR == 5

sfValues == <<7, 8, 9, 10, 11, 12>>
bwValues == <<6250, 12500, 25000, 50000>>
txPowerValues == <<2, 3, 5, 8, 10, 12, 15, 17, 20, 22>>

DefaultSfIndex == 2
DefaultBwIndex == 1
DefaultTxIndex == 7

CfgRepeats == 8            \* cfgRemaining = 8
CfgGapMs == 300            \* now - cfgLastTxMs >= 300
TxGapMs == 50              \* now - lastTxMs >= 50
PingIntervalMs == 2000
RxIntervalMs == 50
LoopDelayMs == 10          \* delay(10) closing loop()
DebounceMs == 100
ShortPressMs == 1000
MediumPressMs == 3000
OtaBufferCapacity == 1024  \* sizeof(loraOtaBuffer)
OtaDefaultTimeoutMs == 30000
OtaTokenMax == 255         \* %255s
BootListenMs == 6000       \* tryReceiveConfigOnControlChannel(6000)
BootBroadcastTimes == 6    \* broadcastConfigOnControlChannel(6, 250)
BootBroadcastGapMs == 250
SetupSerialDelayMs == 500
SetupDisplayDelayMs == 220 \* initDisplay: 50 + 20 + 50 + 100
SetupSenderDelayMs == 750
OtaChunkSize == 200        \* chunkSize of sendLoraOtaUpdate
ChunkMsgSize == 256        \* sizeof(chunkMsg)
OtaDataTagLen == 9         \* strlen("OTA_DATA:")
StoredHeaderLen == 17      \* strlen("LtngDet_FW_v1.0.0")
StoredDummyLen == 15       \* sizeof(dummyFirmware)
StoredDummyNonZero == 5    \* its leading bytes AA 55 AA 55 01; the rest are 00
CascadeBroadcastTimes == 8
CascadeBroadcastGapMs == 250
CascadeNotices == 10
CascadeNoticeDelayMs == 200
CascadeSettleMs == 2000
CascadeListenMs == 15000
UploadDisplayDelayMs == 1000


HIGH == 1
LOW == 0

Absent == 0 - 1            \* an absent key (boolean keys are kept as 1 and 0)
NoFrame == [type |-> "none"]
RxError == [type |-> "error"]

----------------------------------------------------------------------------
(* Bounds of the model *)

MaxRun == 3500             \* loop() iterations start within this many ms of setup()
MaxBoots == 1              \* power cycles
MaxPresses == 1            \* button presses in one run of loop()
MaxFrames == 1             \* frames received in one run of loop()
MaxListenFrames == 1       \* frames heard during one boot-time listen
WordModulus == 1073741824  \* where the unsigned words wrap (2^30, standing for 2^32)

----------------------------------------------------------------------------
(* Unsigned arithmetic of the uint32_t clock, timestamps and counters.  The *)
(* integers of TLC stop short of 2^32, so the wrap is at WordModulus.        *)

Add32(a, b) == (a + b) % WordModulus
Sub32(a, b) == (a - b + WordModulus) % WordModulus

(* printf("%.Nf"): round to a multiple of unit, ties to even *)
RoundHalfEven(x, unit) ==
  LET q == x \div unit
      r == x % unit
  IN  IF 2 * r < unit THEN q * unit
      ELSE IF 2 * r > unit THEN (q + 1) * unit
      ELSE IF q % 2 = 0 THEN q * unit ELSE (q + 1) * unit

(* "%.1f": one decimal *)
FormatF1(x) == RoundHalfEven(x, 10)
(* "%.0f": no decimals *)
FormatF0(x) == RoundHalfEven(x, 100)

(* snprintf(msg, "CFG F=%.1f BW=%.0f SF=%d CR=%d TX=%d", ...): the text, as *)
(* the values its five fields denote; n is the number of fields that scan.   *)
FormatCfg(f, bw, sf, cr, tx) ==
  [type |-> "CFG", n |-> 5, F |-> FormatF1(f), BW |-> FormatF0(bw),
   SF |-> sf, CR |-> cr, TX |-> tx]

(* sscanf(rx, "CFG F=%f BW=%f SF=%d CR=%d TX=%d", &nf, &nb, &nsf, &ncr, &ntx) *)
(* with the locals preset to the current values: a field that does not scan  *)
(* keeps its preset, and scanning stops at the first that does not.           *)
ScanCfg(frame, f, bw, sf, cr, tx) ==
  [parsed |-> frame.n,
   nf  |-> IF frame.n >= 1 THEN frame.F  ELSE f,
   nb  |-> IF frame.n >= 2 THEN frame.BW ELSE bw,
   nsf |-> IF frame.n >= 3 THEN frame.SF ELSE sf,
   ncr |-> IF frame.n >= 4 THEN frame.CR ELSE cr,
   ntx |-> IF frame.n >= 5 THEN frame.TX ELSE tx]

(* if (parsed == 5) *)
CfgHonoredLoose(parsed) == parsed >= 1
CfgHonored(parsed) == parsed = 5

(* the index of the first table entry equal to v, else the index kept *)
IndexOf(table, v, kept) ==
  IF \E i \in 1..Len(table) : table[i] = v
  THEN (CHOOSE i \in 1..Len(table) :
          table[i] = v /\ \A j \in 1..(i - 1) : table[j] # v) - 1
  ELSE kept

----------------------------------------------------------------------------
(* The node as one record, so that the statements of a handler compose.      *)
(* Every operator below takes the record before a statement or call and      *)
(* gives the record after it.                                                *)

World ==
  [isSender |-> isSender, seq |-> seq,
   lastButtonState |-> lastButtonState, buttonPressMs |-> buttonPressMs,
   buttonPressed |-> buttonPressed,
   currentFreq |-> currentFreq, currentBW |-> currentBW, currentSF |-> currentSF,
   currentCR |-> currentCR, currentTxPower |-> currentTxPower,
   currentSfIndex |-> currentSfIndex, currentBwIndex |-> currentBwIndex,
   currentTxIndex |-> currentTxIndex,
   pendingConfigBroadcast |-> pendingConfigBroadcast,
   pendingFreq |-> pendingFreq, pendingBW |-> pendingBW, pendingSF |-> pendingSF,
   pendingCR |-> pendingCR, pendingTxPower |-> pendingTxPower,
   cfgLastTxMs |-> cfgLastTxMs, cfgRemaining |-> cfgRemaining,
   lastTxMs |-> lastTxMs, lastRxMs |-> lastRxMs,
   loraOtaActive |-> loraOtaActive, loraOtaStartTime |-> loraOtaStartTime,
   loraOtaTimeout |-> loraOtaTimeout, loraOtaBufferSize |-> loraOtaBufferSize,
   loraOtaExpectedSize |-> loraOtaExpectedSize,
   loraOtaReceivedSize |-> loraOtaReceivedSize,
   hasStoredFirmware |-> hasStoredFirmware,
   storedFirmwareSize |-> storedFirmwareSize,
   prefs |-> prefs, radio |-> radio, obs |-> obs,
   otaAnnounced |-> otaAnnounced, otaCarried |-> otaCarried,
   restart |-> FALSE]

Becomes(w) ==
  /\ isSender' = w.isSender
  /\ seq' = w.seq
  /\ lastButtonState' = w.lastButtonState
  /\ buttonPressMs' = w.buttonPressMs
  /\ buttonPressed' = w.buttonPressed
  /\ currentFreq' = w.currentFreq
  /\ currentBW' = w.currentBW
  /\ currentSF' = w.currentSF
  /\ currentCR' = w.currentCR
  /\ currentTxPower' = w.currentTxPower
  /\ currentSfIndex' = w.currentSfIndex
  /\ currentBwIndex' = w.currentBwIndex
  /\ currentTxIndex' = w.currentTxIndex
  /\ pendingConfigBroadcast' = w.pendingConfigBroadcast
  /\ pendingFreq' = w.pendingFreq
  /\ pendingBW' = w.pendingBW
  /\ pendingSF' = w.pendingSF
  /\ pendingCR' = w.pendingCR
  /\ pendingTxPower' = w.pendingTxPower
  /\ cfgLastTxMs' = w.cfgLastTxMs
  /\ cfgRemaining' = w.cfgRemaining
  /\ lastTxMs' = w.lastTxMs
  /\ lastRxMs' = w.lastRxMs
  /\ loraOtaActive' = w.loraOtaActive
  /\ loraOtaStartTime' = w.loraOtaStartTime
  /\ loraOtaTimeout' = w.loraOtaTimeout
  /\ loraOtaBufferSize' = w.loraOtaBufferSize
  /\ loraOtaExpectedSize' = w.loraOtaExpectedSize
  /\ loraOtaReceivedSize' = w.loraOtaReceivedSize
  /\ hasStoredFirmware' = w.hasStoredFirmware
  /\ storedFirmwareSize' = w.storedFirmwareSize
  /\ prefs' = w.prefs
  /\ radio' = w.radio
  /\ obs' = w.obs
  /\ otaAnnounced' = w.otaAnnounced
  /\ otaCarried' = w.otaCarried

(* the node's statics hold the fields of w *)
Is(w) ==
  /\ isSender = w.isSender /\ seq = w.seq
  /\ lastButtonState = w.lastButtonState
  /\ buttonPressMs = w.buttonPressMs /\ buttonPressed = w.buttonPressed
  /\ currentFreq = w.currentFreq /\ currentBW = w.currentBW
  /\ currentSF = w.currentSF /\ currentCR = w.currentCR
  /\ currentTxPower = w.currentTxPower
  /\ currentSfIndex = w.currentSfIndex /\ currentBwIndex = w.currentBwIndex
  /\ currentTxIndex = w.currentTxIndex
  /\ pendingConfigBroadcast = w.pendingConfigBroadcast
  /\ pendingFreq = w.pendingFreq /\ pendingBW = w.pendingBW
  /\ pendingSF = w.pendingSF /\ pendingCR = w.pendingCR
  /\ pendingTxPower = w.pendingTxPower
  /\ cfgLastTxMs = w.cfgLastTxMs /\ cfgRemaining = w.cfgRemaining
  /\ lastTxMs = w.lastTxMs /\ lastRxMs = w.lastRxMs
  /\ loraOtaActive = w.loraOtaActive /\ loraOtaStartTime = w.loraOtaStartTime
  /\ loraOtaTimeout = w.loraOtaTimeout
  /\ loraOtaBufferSize = w.loraOtaBufferSize
  /\ loraOtaExpectedSize = w.loraOtaExpectedSize
  /\ loraOtaReceivedSize = w.loraOtaReceivedSize
  /\ hasStoredFirmware = w.hasStoredFirmware
  /\ storedFirmwareSize = w.storedFirmwareSize
  /\ prefs = w.prefs /\ radio = w.radio /\ obs = w.obs
  /\ otaAnnounced = w.otaAnnounced /\ otaCarried = w.otaCarried

(* what a step has done so far: nothing *)
NoObs == [step |-> "none", at |-> 0, sent |-> <<>>, rx |-> NoFrame, air |-> NoFrame,
          btn |-> "none",
          flash |-> "none", btnSetters |-> -1, setters |-> -1,
          heard |-> <<>>, excursion |-> "none"]

(* the statics as the C start-up code initialises them *)
StaticInit(p, r) ==
  [isSender |-> TRUE, seq |-> 0,
   lastButtonState |-> HIGH, buttonPressMs |-> 0, buttonPressed |-> FALSE,
   currentFreq |-> LORA_FREQ_MHZ, currentBW |-> LORA_BW_KHZ, currentSF |-> LORA_SF,
   currentCR |-> LORA_CR, currentTxPower |-> LORA_TX_DBM,
   currentSfIndex |-> DefaultSfIndex, currentBwIndex |-> DefaultBwIndex,
   currentTxIndex |-> DefaultTxIndex,
   pendingConfigBroadcast |-> FALSE,
   pendingFreq |-> 0, pendingBW |-> 0, pendingSF |-> 0, pendingCR |-> 0,
   pendingTxPower |-> 0, cfgLastTxMs |-> 0, cfgRemaining |-> 0,
   lastTxMs |-> 0, lastRxMs |-> 0,
   loraOtaActive |-> FALSE, loraOtaStartTime |-> 0,
   loraOtaTimeout |-> OtaDefaultTimeoutMs, loraOtaBufferSize |-> 0,
   loraOtaExpectedSize |-> 0, loraOtaReceivedSize |-> 0,
   hasStoredFirmware |-> FALSE, storedFirmwareSize |-> 0,
   prefs |-> p, radio |-> r, obs |-> NoObs,
   otaAnnounced |-> 0, otaCarried |-> 0,
   restart |-> FALSE]

----------------------------------------------------------------------------
(* The radio chip *)

RadioCfg(f, bw, sf, cr, tx) == [freq |-> f, bw |-> bw, sf |-> sf, cr |-> cr, tx |-> tx]

RadioUnconfigured == RadioCfg(0, 0, 0, 0, 0)

CurrentCfg(w) ==
  RadioCfg(w.currentFreq, w.currentBW, w.currentSF, w.currentCR, w.currentTxPower)

ControlCfg(w) ==
  RadioCfg(CTRL_FREQ_MHZ, CTRL_BW_KHZ, CTRL_SF, CTRL_CR, w.currentTxPower)

(* radio.begin(...) is RadioLib's: when it succeeds the chip holds cfg; when *)
(* it fails ("keep") the chip keeps what it held.                            *)
BeginOutcomes == {"ok", "keep"}

RadioBegin(r, cfg, outcome) == IF outcome = "ok" THEN cfg ELSE r

(* radio.transmit(frame): the frame goes on air, whatever the result code *)
Transmit(w, frame) == [w EXCEPT !.obs.sent = Append(@, frame)]

(* updateRadioSettings(): five setters in a row, stopping at the first that *)
(* fails; k of them succeed.                                                 *)
updateRadioSettings(w, k) ==
  [w EXCEPT !.radio = [freq |-> IF k >= 1 THEN w.currentFreq ELSE @.freq,
                       bw   |-> IF k >= 2 THEN w.currentBW ELSE @.bw,
                       sf   |-> IF k >= 3 THEN w.currentSF ELSE @.sf,
                       cr   |-> IF k >= 4 THEN w.currentCR ELSE @.cr,
                       tx   |-> IF k >= 5 THEN w.currentTxPower ELSE @.tx],
             !.obs.setters = k]

----------------------------------------------------------------------------
(* Persistence *)

NoPrefs == [freq |-> Absent, bw |-> Absent, sf |-> Absent, cr |-> Absent,
            tx |-> Absent, sender |-> Absent]

savePersistedSettingsNoSf(w) ==
  [w EXCEPT !.prefs.freq = w.currentFreq, !.prefs.bw = w.currentBW,
            !.prefs.cr = w.currentCR, !.prefs.tx = w.currentTxPower]

savePersistedSettings(w) ==
  [w EXCEPT !.prefs.freq = w.currentFreq, !.prefs.bw = w.currentBW,
            !.prefs.sf = w.currentSF, !.prefs.cr = w.currentCR,
            !.prefs.tx = w.currentTxPower]

savePersistedRoleSkipped(w) == w

savePersistedRole(w) == [w EXCEPT !.prefs.sender = IF w.isSender THEN 1 ELSE 0]

loadPersistedSettingsOnly(w) ==
  [w EXCEPT
     !.currentFreq = IF w.prefs.freq # Absent THEN w.prefs.freq ELSE @,
     !.currentBW = IF w.prefs.bw # Absent THEN w.prefs.bw ELSE @,
     !.currentSF = IF w.prefs.sf # Absent THEN w.prefs.sf ELSE @,
     !.currentCR = IF w.prefs.cr # Absent THEN w.prefs.cr ELSE @,
     !.currentTxPower = IF w.prefs.tx # Absent THEN w.prefs.tx ELSE @]

loadPersistedSettingsAndRole(w) ==
  [w EXCEPT
     !.currentFreq = IF w.prefs.freq # Absent THEN w.prefs.freq ELSE @,
     !.currentBW = IF w.prefs.bw # Absent THEN w.prefs.bw ELSE @,
     !.currentSF = IF w.prefs.sf # Absent THEN w.prefs.sf ELSE @,
     !.currentCR = IF w.prefs.cr # Absent THEN w.prefs.cr ELSE @,
     !.currentTxPower = IF w.prefs.tx # Absent THEN w.prefs.tx ELSE @,
     !.isSender = IF w.prefs.sender # Absent THEN w.prefs.sender = 1 ELSE @]

computeIndicesFromCurrent(w) ==
  [w EXCEPT !.currentSfIndex = IndexOf(sfValues, w.currentSF, @),
            !.currentBwIndex = IndexOf(bwValues, w.currentBW, @),
            !.currentTxIndex = IndexOf(txPowerValues, w.currentTxPower, @)]

----------------------------------------------------------------------------
(* Config broadcast and the button *)

startConfigBroadcast(w, newFreq, newBW, newSF, newCR, newTxPower) ==
  [w EXCEPT !.pendingConfigBroadcast = TRUE,
            !.pendingFreq = newFreq, !.pendingBW = newBW, !.pendingSF = newSF,
            !.pendingCR = newCR, !.pendingTxPower = newTxPower,
            !.cfgLastTxMs = 0, !.cfgRemaining = CfgRepeats]

DebouncedInclusive(pressDuration) == pressDuration <= DebounceMs

(* if (pressDuration < 100): very short press, ignored *)
Debounced(pressDuration) == pressDuration < DebounceMs

(* the release branch of updateButton(), by press duration *)
ButtonRelease(w, pressDuration, wifiOta, k) ==
  IF Debounced(pressDuration) THEN
    [w EXCEPT !.obs.btn = "ignore"]
  ELSE IF pressDuration < ShortPressMs THEN
    savePersistedRole([w EXCEPT !.isSender = ~@, !.seq = 0, !.obs.btn = "toggle"])
  ELSE IF pressDuration < MediumPressMs THEN
    IF w.isSender THEN
      LET nextIndex == (w.currentSfIndex + 1) % Len(sfValues)
          nextSF == sfValues[nextIndex + 1]
      IN  startConfigBroadcast([w EXCEPT !.obs.btn = "bcast_sf"],
            w.currentFreq, w.currentBW, nextSF, w.currentCR, w.currentTxPower)
    ELSE IF wifiOta THEN
      [w EXCEPT !.obs.btn = "netmode"]
    ELSE
      LET i == (w.currentSfIndex + 1) % Len(sfValues)
          w1 == [w EXCEPT !.currentSfIndex = i, !.currentSF = sfValues[i + 1],
                          !.obs.btn = "local_sf"]
      IN  savePersistedSettings(
            [updateRadioSettings(w1, k) EXCEPT !.obs.btnSetters = k, !.obs.setters = -1])
  ELSE
    IF w.isSender THEN
      LET nextIndex == (w.currentBwIndex + 1) % Len(bwValues)
          nextBW == bwValues[nextIndex + 1]
      IN  startConfigBroadcast([w EXCEPT !.obs.btn = "bcast_bw"],
            w.currentFreq, nextBW, w.currentSF, w.currentCR, w.currentTxPower)
    ELSE
      LET i == (w.currentBwIndex + 1) % Len(bwValues)
          w1 == [w EXCEPT !.currentBwIndex = i, !.currentBW = bwValues[i + 1],
                          !.obs.btn = "local_bw"]
      IN  savePersistedSettings(
            [updateRadioSettings(w1, k) EXCEPT !.obs.btnSetters = k, !.obs.setters = -1])

(* updateButton(): s is digitalRead(BUTTON_PIN), now is millis() *)
updateButton(w, s, now, wifiOta, k) ==
  LET w1 == IF w.lastButtonState = HIGH /\ s = LOW
            THEN [w EXCEPT !.buttonPressed = TRUE, !.buttonPressMs = now]
            ELSE w
      w2 == IF w1.lastButtonState = LOW /\ s = HIGH /\ w1.buttonPressed
            THEN ButtonRelease([w1 EXCEPT !.buttonPressed = FALSE],
                               Sub32(now, w1.buttonPressMs), wifiOta, k)
            ELSE w1
  IN  [w2 EXCEPT !.lastButtonState = s]

----------------------------------------------------------------------------
(* LoRa OTA, receiving side *)

Min(a, b) == IF a <= b THEN a ELSE b

(* the firmware write on OTA_END: fw is what Update.begin()/Update.end() do *)
FlashOutcomes == {"begin_failed", "end_failed", "ok"}

(* if (loraOtaReceivedSize >= loraOtaExpectedSize) *)
OtaComplete(received, expected) == received >= expected

(* handleLoraOtaPacket(packet), entered at clock value t.                    *)
(* OTA_START: sscanf stores straight into loraOtaExpectedSize and            *)
(* loraOtaTimeout, so each field that scans is stored even when the other    *)
(* does not.  OTA_DATA: frame.tok is strlen of what "%255s" scanned.         *)
(* if (parsed == 2) { ... } of the OTA_START branch: a session opens at t *)
OtaStartSessionKeepCount(w, frame, t) ==
  [w EXCEPT !.loraOtaActive = TRUE, !.loraOtaStartTime = t,
            !.otaAnnounced = frame.size, !.otaCarried = 0]

OtaStartSession(w, frame, t) ==
  [w EXCEPT !.loraOtaActive = TRUE, !.loraOtaStartTime = t,
            !.loraOtaReceivedSize = 0, !.loraOtaBufferSize = 0,
            !.otaAnnounced = frame.size, !.otaCarried = 0]

(* the guard of the OTA_DATA and OTA_END branches: if (!loraOtaActive) return *)
OtaSessionOpenAlways(w) == TRUE

OtaSessionOpen(w) == w.loraOtaActive

(* the room check before a payload is appended to loraOtaBuffer *)
OtaFitsAlways(held, dataLen) == TRUE

OtaFits(held, dataLen) == held + dataLen < OtaBufferCapacity

OtaFlashFailedStaysActive(w, fw) == [w EXCEPT !.obs.flash = fw]

(* Update.begin() or Update.end() returned false: the message is shown and    *)
(* control falls through to loraOtaActive = false                             *)
OtaFlashFailed(w, fw) == [w EXCEPT !.obs.flash = fw, !.loraOtaActive = FALSE]

(* chunk indices below this one are taken, the others dropped *)
OtaDataScannedInOrder(frame) == frame.n = 2 /\ frame.chunk < 1

(* if (parsed == 2) of the OTA_DATA branch: the chunk index and a payload     *)
(* token have scanned; the index is stored in a local that is not read again  *)
OtaDataScanned(frame) == frame.n = 2

handleLoraOtaPacket(w, frame, t, fw) ==
  IF frame.type = "OTA_START" THEN
    LET w1 == [w EXCEPT
                 !.loraOtaExpectedSize = IF frame.n >= 1 THEN frame.size ELSE @,
                 !.loraOtaTimeout = IF frame.n >= 2 THEN frame.timeout ELSE @]
    IN  IF frame.n = 2 THEN OtaStartSession(w1, frame, t) ELSE w1
  ELSE IF frame.type = "OTA_DATA" THEN
    IF ~OtaSessionOpen(w) THEN w
    ELSE
      LET w1 == [w EXCEPT !.otaCarried = Min(@ + frame.len, 2 * OtaBufferCapacity)]
          dataLen == Min(frame.tok, OtaTokenMax)
      IN  IF OtaDataScanned(frame) /\ OtaFits(w.loraOtaBufferSize, dataLen)
          THEN [w1 EXCEPT !.loraOtaBufferSize = @ + dataLen,
                          !.loraOtaReceivedSize = Add32(@, dataLen)]
          ELSE w1
  ELSE IF frame.type = "OTA_END" THEN
    IF ~OtaSessionOpen(w) THEN w
    ELSE IF OtaComplete(w.loraOtaReceivedSize, w.loraOtaExpectedSize)
    THEN IF fw = "ok"
         THEN [w EXCEPT !.obs.flash = "ok", !.restart = TRUE]
         ELSE OtaFlashFailed(w, fw)
    ELSE [w EXCEPT !.loraOtaActive = FALSE]
  ELSE w

(* checkLoraOtaTimeout(), at clock value t *)
checkLoraOtaTimeout(w, t) ==
  IF w.loraOtaActive /\ Sub32(t, w.loraOtaStartTime) > w.loraOtaTimeout
  THEN [w EXCEPT !.loraOtaActive = FALSE]
  ELSE w

----------------------------------------------------------------------------
(* The sending side of the LoRa OTA transfer *)

(* A firmware image: its size, and the offsets of its zero bytes *)
Image(size, zeros) == [size |-> size, zeros |-> zeros]

(* storeCurrentFirmware(): the header text followed by dummyFirmware *)
storeCurrentFirmware(w) ==
  IF w.isSender THEN w
  ELSE [w EXCEPT !.storedFirmwareSize = StoredHeaderLen + StoredDummyLen,
                 !.hasStoredFirmware = TRUE]

(* the bytes of storedFirmware, as storeCurrentFirmware() leaves them *)
storedFirmware(w) ==
  Image(w.storedFirmwareSize,
        (StoredHeaderLen + StoredDummyNonZero)..(StoredHeaderLen + StoredDummyLen - 1))

(* the number of image bytes from offset from on, n at most, that come before *)
(* the first zero byte                                                        *)
BeforeZero(image, from, n) ==
  LET zs == {z \in image.zeros : z >= from /\ z < from + n}
  IN  IF zs = {} THEN n
      ELSE (CHOOSE z \in zs : \A y \in zs : z <= y) - from

(* strlen of what snprintf(chunkMsg, ..., "OTA_DATA:%d:", chunkNum) writes *)
PrefixLen(chunkNum) ==
  OtaDataTagLen + (IF chunkNum < 10 THEN 1 ELSE IF chunkNum < 100 THEN 2 ELSE 3) + 1

(* What the C standard leaves open in the chunk loop.  chunkMsg is not       *)
(* terminated after the memcpy, so when the chunk holds no zero byte the     *)
(* strlen() calls run on into the uninitialised rest of the array: garbage   *)
(* is the number of non-zero bytes they find there.  The terminator is       *)
(* written at strlen(chunkMsg) + currentChunkSize, which may lie outside the *)
(* array: oob is what that store does to the program.                        *)
Undefined == [garbage : {0, 5}, oob : {"harmless", "crash"}]

Defined == [garbage |-> 0, oob |-> "harmless"]

(* the while loop of sendLoraOtaUpdate(): radio.transmit(chunkMsg) sends the *)
(* array as a C string, up to its first zero byte                            *)
RECURSIVE SendChunks(_, _, _, _, _)
SendChunks(w, image, sentBytes, chunkNum, und) ==
  IF sentBytes >= image.size THEN w
  ELSE LET currentChunkSize == Min(OtaChunkSize, image.size - sentBytes)
           carried == BeforeZero(image, sentBytes, currentChunkSize)
           extra == IF carried < currentChunkSize THEN 0 ELSE und.garbage
           strlenAfter == PrefixLen(chunkNum) + carried + extra
           msg == [type |-> "OTA_DATA", chunk |-> chunkNum, from |-> sentBytes,
                   len |-> carried, extra |-> extra]
       IN  IF strlenAfter + currentChunkSize >= ChunkMsgSize /\ und.oob = "crash"
           THEN [w EXCEPT !.restart = TRUE]
           ELSE SendChunks(Transmit(w, msg), image, sentBytes + currentChunkSize,
                           chunkNum + 1, und)

(* sendLoraOtaUpdate(firmware, firmwareSize) *)
sendLoraOtaUpdate(w, image, und) ==
  IF w.isSender THEN w
  ELSE LET w1 == Transmit(w, [type |-> "OTA_START", n |-> 2, size |-> image.size,
                              timeout |-> w.loraOtaTimeout])
           w2 == SendChunks(w1, image, 0, 0, und)
       IN  IF w2.restart THEN w2 ELSE Transmit(w2, [type |-> "OTA_END"])

----------------------------------------------------------------------------
(* loop() *)

(* the commit that ends a config broadcast *)
CommitPending(w, now, k) ==
  LET w1 == [w EXCEPT !.currentFreq = w.pendingFreq, !.currentBW = w.pendingBW,
                      !.currentSF = w.pendingSF, !.currentCR = w.pendingCR,
                      !.currentTxPower = w.pendingTxPower]
      w2 == savePersistedSettings(updateRadioSettings(computeIndicesFromCurrent(w1), k))
  IN  [w2 EXCEPT !.pendingConfigBroadcast = FALSE, !.lastTxMs = now]

(* the test that ends a config broadcast: if (cfgRemaining <= 0) *)
CfgDoneEarly(remaining) == remaining <= 1

CfgDone(remaining) == remaining <= 0

(* the gate of a CFG attempt *)
CfgGateShut(w, now) == FALSE

CfgGateOpen(w, now) ==
  Sub32(now, w.lastTxMs) >= TxGapMs /\ Sub32(now, w.cfgLastTxMs) >= CfgGapMs

(* the gate of a PING *)
PingDueAlways(w, now) == TRUE

PingDue(w, now) == Sub32(now, w.lastTxMs) >= PingIntervalMs

(* if (isSender) { ... } *)
SenderBranch(w, now, k) ==
  IF w.pendingConfigBroadcast THEN
    IF CfgGateOpen(w, now)
    THEN LET msg == FormatCfg(w.pendingFreq, w.pendingBW, w.pendingSF,
                              w.pendingCR, w.pendingTxPower)
             w1 == [Transmit(w, msg) EXCEPT !.cfgLastTxMs = now,
                                            !.cfgRemaining = @ - 1]
         IN  IF CfgDone(w1.cfgRemaining) THEN CommitPending(w1, now, k) ELSE w1
    ELSE w
  ELSE
    IF PingDue(w, now)
    THEN [Transmit(w, [type |-> "PING", seq |-> w.seq]) EXCEPT
            !.seq = Add32(@, 1), !.lastTxMs = now]
    ELSE w

(* the CFG branch of the receive handler *)
ReceiveCfg(w, frame, k) ==
  LET sc == ScanCfg(frame, w.currentFreq, w.currentBW, w.currentSF,
                    w.currentCR, w.currentTxPower)
  IN  IF CfgHonored(sc.parsed)
      THEN LET w1 == [w EXCEPT !.currentFreq = sc.nf, !.currentBW = sc.nb,
                               !.currentSF = sc.nsf, !.currentCR = sc.ncr,
                               !.currentTxPower = sc.ntx]
           IN  savePersistedSettings(
                 updateRadioSettings(computeIndicesFromCurrent(w1), k))
      ELSE w

(* else { ... }: rx is what radio.receive() gave, a frame, NoFrame for a    *)
(* timeout or RxError; t is the clock when the handler runs.                 *)
ReceiverBranch(w, now, t, rx, k, fw) ==
  IF Sub32(now, w.lastRxMs) >= RxIntervalMs THEN
    LET w0 == [w EXCEPT !.obs.rx = rx, !.lastRxMs = now]
    IN  IF rx.type = "CFG" THEN ReceiveCfg(w0, rx, k)
        ELSE IF rx.type \in {"OTA_START", "OTA_DATA", "OTA_END", "OTA_OTHER"}
        THEN handleLoraOtaPacket(w0, rx, t, fw)
        ELSE IF rx.type \in {"FW_UPDATE_AVAILABLE", "UPDATE_NOW"}
        THEN IF w0.isSender THEN Transmit(w0, [type |-> "REQUEST_UPDATE"]) ELSE w0
        ELSE IF rx.type = "REQUEST_UPDATE"
        (* the build without WiFi OTA has no stored firmware: the flag is    *)
        (* never set in it                                                    *)
        THEN IF ~w0.isSender
             THEN LET w1 == Transmit(w0, [type |-> "UPDATE_ACK"])
                  IN  IF w1.hasStoredFirmware /\ w1.storedFirmwareSize > 0
                      THEN sendLoraOtaUpdate(w1, storedFirmware(w1), Defined)
                      ELSE Transmit(w1, [type |-> "NO_FIRMWARE"])
             ELSE w0
        ELSE w0
  ELSE w

(* an iteration of loop() that reads the radio whatever the role *)
LoopBodyListening(w, now, s, body, kb, k, rx, fw, wifiOta) ==
  LET w1 == updateButton([w EXCEPT !.obs = [NoObs EXCEPT !.step = "loop",
                                                          !.at = Add32(now, body),
                                                          !.air = rx]],
                         s, now, wifiOta, kb)
      w2 == ReceiverBranch(IF w1.isSender THEN SenderBranch(w1, now, k) ELSE w1,
                           now, Add32(now, body), rx, k, fw)
  IN  IF w2.restart THEN w2 ELSE checkLoraOtaTimeout(w2, Add32(now, body))

(* one iteration of loop(): s is the button level read, body the time spent *)
(* in blocking radio calls, kb and k the setters that succeed in the button *)
(* handler's and the branch's updateRadioSettings(), fw the flash outcome,   *)
(* rx what is on the data channel during the iteration (obs.air), which      *)
(* reaches the program only through a radio.receive() call (obs.rx).         *)
(* obs.at is the clock when the received frame is handled.                   *)
LoopBody(w, now, s, body, kb, k, rx, fw, wifiOta) ==
  LET w1 == updateButton([w EXCEPT !.obs = [NoObs EXCEPT !.step = "loop",
                                                          !.at = Add32(now, body),
                                                          !.air = rx]],
                         s, now, wifiOta, kb)
      w2 == IF w1.isSender THEN SenderBranch(w1, now, k)
            ELSE ReceiverBranch(w1, now, Add32(now, body), rx, k, fw)
  IN  IF w2.restart THEN w2 ELSE checkLoraOtaTimeout(w2, Add32(now, body))

----------------------------------------------------------------------------
(* setup() *)

(* broadcastConfigOnControlChannel(times, intervalMs): b1 and b2 are what   *)
(* the two radio.begin() calls do.                                           *)
broadcastConfigOnControlChannel(w, times, b1, b2) ==
  LET w1 == [w EXCEPT !.radio = RadioBegin(@, ControlCfg(w), b1),
                      !.obs.excursion = "broadcast"]
      msg == FormatCfg(w.currentFreq, w.currentBW, w.currentSF, w.currentCR,
                       w.currentTxPower)
  IN  IF b1 # "ok" THEN w1
      ELSE [w1 EXCEPT !.obs.sent = @ \o [i \in 1..times |-> msg],
                      !.radio = RadioBegin(@, CurrentCfg(w), b2)]

(* the listen loop: the frames heard, in order, until one is honoured *)
RECURSIVE ListenLoop(_, _)
ListenLoop(w, heard) ==
  IF heard = <<>> THEN w
  ELSE LET rx == Head(heard)
           w0 == [w EXCEPT !.obs.heard = Append(@, rx)]
           sc == ScanCfg(rx, w.currentFreq, w.currentBW, w.currentSF,
                         w.currentCR, w.currentTxPower)
       IN  IF rx.type = "CFG" /\ CfgHonored(sc.parsed)
           THEN savePersistedSettings(computeIndicesFromCurrent(
                  [w0 EXCEPT !.currentFreq = sc.nf, !.currentBW = sc.nb,
                             !.currentSF = sc.nsf, !.currentCR = sc.ncr,
                             !.currentTxPower = sc.ntx,
                             !.obs.excursion = "listen_applied"]))
           ELSE ListenLoop(w0, Tail(heard))

(* the listen that leaves the radio on the control channel *)
tryReceiveConfigNoRestore(w, heard, b1, b2) ==
  ListenLoop([w EXCEPT !.radio = RadioBegin(@, ControlCfg(w), b1),
                       !.obs.excursion = "listen"], heard)

(* tryReceiveConfigOnControlChannel(durationMs) *)
tryReceiveConfigOnControlChannel(w, heard, b1, b2) ==
  LET w1 == [w EXCEPT !.radio = RadioBegin(@, ControlCfg(w), b1),
                      !.obs.excursion = "listen"]
  IN  IF b1 # "ok" THEN w1
      ELSE LET w2 == ListenLoop(w1, heard)
           IN  [w2 EXCEPT !.radio = RadioBegin(@, CurrentCfg(w2), b2)]

(* setup() up to and including initRadioOrHalt(), from the persisted keys p *)
(* and the chip state r; b0 is what its radio.begin() does.                  *)
SetupInit(p, r, roleSender, b0) ==
  LET w0 == [StaticInit(p, r) EXCEPT !.isSender = roleSender,
                                      !.obs = [NoObs EXCEPT !.step = "boot"]]
      w1 == computeIndicesFromCurrent(loadPersistedSettingsAndRole(w0))
  IN  [w1 EXCEPT !.radio = RadioBegin(@, CurrentCfg(w1), b0)]

(* the rest of setup(): the control-channel excursion of the node's role *)
SetupRendezvous(w, heard, b1, b2) ==
  IF w.isSender
  THEN LET w1 == broadcastConfigOnControlChannel(w, BootBroadcastTimes, b1, b2)
       IN  startConfigBroadcast(w1, w1.currentFreq, w1.currentBW, w1.currentSF,
                                w1.currentCR, w1.currentTxPower)
  ELSE tryReceiveConfigOnControlChannel(w, heard, b1, b2)

(* millis() when setup() returns: the delays it makes, the time to join the *)
(* WiFi network aside.  A frame honoured in the listen window is taken to    *)
(* arrive in the window's last poll.                                         *)
SetupDuration(w, b1) ==
  SetupSerialDelayMs + SetupDisplayDelayMs +
  (IF w.isSender
   THEN SetupSenderDelayMs + (IF b1 = "ok" THEN BootBroadcastTimes * BootBroadcastGapMs ELSE 0)
   ELSE IF b1 = "ok" THEN BootListenMs ELSE 0)

(* the listen window of triggerLoraFirmwareUpdates(): the frames heard *)
RECURSIVE CascadeListen(_, _)
CascadeListen(w, heard) ==
  IF heard = <<>> THEN w
  ELSE LET w0 == [w EXCEPT !.obs.heard = Append(@, Head(heard))]
       IN  CascadeListen(IF Head(heard).type = "REQUEST_UPDATE"
                         THEN Transmit(w0, [type |-> "UPDATE_ACK"]) ELSE w0,
                         Tail(heard))

(* the notification rounds of triggerLoraFirmwareUpdates() *)
RECURSIVE CascadeNotify(_, _)
CascadeNotify(w, rounds) ==
  IF rounds = 0 THEN w
  ELSE CascadeNotify(
         Transmit(Transmit(Transmit(w, [type |-> "FW_UPDATE_AVAILABLE"]),
                           [type |-> "FW_VERSION", stored |-> w.hasStoredFirmware]),
                  [type |-> "UPDATE_NOW"]),
         rounds - 1)

(* triggerLoraFirmwareUpdates() *)
triggerLoraFirmwareUpdates(w, heard, b1, b2) ==
  IF w.isSender THEN w
  ELSE CascadeListen(
         CascadeNotify(
           broadcastConfigOnControlChannel(w, CascadeBroadcastTimes, b1, b2),
           CascadeNotices),
         heard)

(* the ArduinoOTA.onEnd callback *)
OnWifiOtaEnd(w, heard, b1, b2) ==
  IF w.isSender THEN w
  ELSE triggerLoraFirmwareUpdates(storeCurrentFirmware(w), heard, b1, b2)

(* the time the callback takes: its delays, the radio calls aside *)
CascadeDuration(b1) ==
  UploadDisplayDelayMs + UploadDisplayDelayMs
  + (IF b1 = "ok" THEN CascadeBroadcastTimes * CascadeBroadcastGapMs ELSE 0)
  + CascadeNotices * 3 * CascadeNoticeDelayMs + CascadeSettleMs + CascadeListenMs

----------------------------------------------------------------------------
(* Inputs *)

Levels == {HIGH, LOW}

(* updateRadioSettings(): how many of the five setters succeed: all, or    *)
(* setFrequency alone with setBandwidth refusing                             *)
SetterOutcomes == {1, 5}

(* CFG frames a peer running this firmware sends: its pending target, formatted *)
PeerCfgFrames ==
  {FormatCfg(LORA_FREQ_MHZ, bw, sf, LORA_CR, LORA_TX_DBM) :
     bw \in {6250}, sf \in {10}}

(* a well-formed CFG frame from some other transmitter *)
ForeignCfgFrames ==
  {[type |-> "CFG", n |-> 5, F |-> 86800, BW |-> 25000, SF |-> 13, CR |-> 7, TX |-> 30]}

(* frames that start with "CFG " and from which fewer than five fields scan *)
MalformedCfgFrames ==
  {[type |-> "CFG", n |-> n, F |-> 86800, BW |-> 50000, SF |-> 7, CR |-> 8, TX |-> 2] :
     n \in {2, 4}}

CfgFrames == PeerCfgFrames \cup ForeignCfgFrames \cup MalformedCfgFrames

OtherFrames ==
  {[type |-> "PING", seq |-> 0], [type |-> "REQUEST_UPDATE"],
   [type |-> "FW_UPDATE_AVAILABLE"]}

(* persisted keys a node may hold at power-on: none (factory), or settings  *)
(* and role saved by an earlier run                                          *)
SavedPrefs ==
  {[freq |-> LORA_FREQ_MHZ, bw |-> 50000, sf |-> 10, cr |-> LORA_CR,
    tx |-> LORA_TX_DBM, sender |-> r] : r \in {0, 1}}

(* the two firmware images: the sender's, and the receiver's with WiFi OTA *)
Builds == {[wifiOta |-> FALSE, roleSender |-> TRUE],
           [wifiOta |-> TRUE, roleSender |-> FALSE]}

----------------------------------------------------------------------------
(* Actions *)

RtIdle == [phase |-> "off"]

(* power-on: the statics hold their initialisers, the chip is unconfigured *)
PowerOn(p) ==
  /\ pc' = "boot"
  /\ millis' = 0
  /\ setupEnd' = 0
  /\ presses' = 0
  /\ frames' = 0
  /\ pings' = 0
  /\ Becomes(StaticInit(p, RadioUnconfigured))

(* setup(), with the frames in Frames on the control channel *)
BootWith(Frames) ==
  /\ pc = "boot"
  /\ \E b0 \in BeginOutcomes :
       \E w0 \in {SetupInit(prefs, radio, build.roleSender, b0)} :
           IF b0 # "ok"
           THEN /\ pc' = "halt"
                /\ millis' = SetupSerialDelayMs + SetupDisplayDelayMs
                /\ setupEnd' = setupEnd
                /\ Becomes(w0)
           ELSE \E b1 \in BeginOutcomes, b2 \in BeginOutcomes :
                  \E heard \in IF w0.isSender \/ b1 # "ok" THEN {<<>>}
                               ELSE UNION {[1..n -> Frames] : n \in 0..MaxListenFrames} :
                    \E w1 \in {SetupRendezvous(w0, heard, b1, b2)} :
                        /\ (b1 # "ok" => b2 = "ok")
                        /\ (w1.obs.excursion = "listen_applied"
                              => Len(w1.obs.heard) = Len(heard))
                        /\ pc' = "loop"
                        /\ millis' = SetupDuration(w1, b1)
                        /\ setupEnd' = SetupDuration(w1, b1)
                        /\ Becomes(w1)
  /\ UNCHANGED <<build, boots, presses, frames, pings, rt>>

(* one iteration of loop(): Frames are on the data channel in an iteration   *)
(* that polls the radio and Air in one that does not, at most maxFrames of   *)
(* them and at most maxPresses presses in a run; the body takes one of       *)
(* StepBodies ms; iterations start                                           *)
(* until maxRun ms after setup()                                             *)
LoopWith(Frames, Air, StepBodies, Buttons, maxPresses, maxFrames, maxRun) ==
  /\ pc = "loop"
  /\ \E s \in Buttons, body \in StepBodies :
       /\ Sub32(millis, setupEnd) <= maxRun
       /\ (s = LOW /\ lastButtonState = HIGH => presses < maxPresses)
       /\ presses' = IF s = LOW /\ lastButtonState = HIGH THEN presses + 1 ELSE presses
       /\ \E now \in {millis}, w0 \in {World} :
          \E probe \in {updateButton(w0, s, now, build.wifiOta, 5)} :
          \E rx \in IF frames >= maxFrames THEN {NoFrame}
                     ELSE IF ~probe.isSender /\ Sub32(now, probe.lastRxMs) >= RxIntervalMs
                     THEN Frames \cup {NoFrame, RxError}
                     ELSE Air \cup {NoFrame} :
          \E plain \in {LoopBody(w0, now, s, body, 5, 5, rx, "ok", build.wifiOta)} :
          \E kb \in IF plain.obs.btnSetters # -1 THEN SetterOutcomes ELSE {5},
             k \in IF plain.obs.setters # -1 THEN SetterOutcomes ELSE {5},
             fw \in IF plain.obs.flash # "none" THEN FlashOutcomes ELSE {"ok"} :
          \E w \in {LoopBody(w0, now, s, body, kb, k, rx, fw, build.wifiOta)} :
             /\ Becomes(w)
             /\ pc' = IF w.restart THEN "boot" ELSE "loop"
             /\ millis' = IF w.restart THEN 0 ELSE Add32(now, body + LoopDelayMs)
             /\ setupEnd' = IF w.restart THEN 0 ELSE setupEnd
             /\ frames' = IF w.restart THEN 0
                          ELSE IF rx # NoFrame THEN frames + 1 ELSE frames
             /\ pings' = IF w.restart THEN 0
                         ELSE pings + Cardinality({i \in 1..Len(w.obs.sent) :
                                                    w.obs.sent[i].type = "PING"})
  /\ UNCHANGED <<build, boots, rt>>

(* ArduinoOTA.handle() in an iteration of loop() completes a WiFi upload and  *)
(* runs the onEnd callback, with the frames of Heard on the data channel      *)
(* during its listen window.  What follows the callback is the library's:    *)
(* it reboots the node, or returns to loop() when told not to reboot.  One   *)
(* upload is taken per boot, within maxRun ms of setup().                     *)
WifiOtaEndWith(Heard, maxHeard, maxRun) ==
  /\ pc = "loop"
  /\ build.wifiOta /\ ~isSender
  /\ ~hasStoredFirmware
  /\ Sub32(millis, setupEnd) <= maxRun
  /\ \E b1 \in BeginOutcomes, b2 \in BeginOutcomes, after \in {"reboot", "return"} :
       \E heard \in UNION {[1..n -> Heard] : n \in 0..maxHeard} :
         \E w \in {OnWifiOtaEnd([World EXCEPT !.obs = [NoObs EXCEPT !.step = "upload"]],
                                heard, b1, b2)} :
           /\ (b1 # "ok" => b2 = "ok")
           /\ Becomes(w)
           /\ pc' = IF after = "reboot" THEN "boot" ELSE "loop"
           /\ millis' = IF after = "reboot" THEN 0
                        ELSE Add32(millis, CascadeDuration(b1))
           /\ setupEnd' = IF after = "reboot" THEN 0 ELSE setupEnd
           /\ frames' = IF after = "reboot" THEN 0 ELSE frames
           /\ pings' = IF after = "reboot" THEN 0 ELSE pings
  /\ UNCHANGED <<build, boots, presses, rt>>

(* the node loses power and is switched on again *)
PowerCycle ==
  /\ pc \in {"loop", "halt"}
  /\ boots < MaxBoots
  /\ boots' = boots + 1
  /\ PowerOn(prefs)
  /\ UNCHANGED <<build, rt>>

----------------------------------------------------------------------------
(* The node: boot rendezvous, config sync, button *)

Bodies == {490, 2990}

Init ==
  /\ build \in Builds
  /\ rt = RtIdle
  /\ pc = "boot"
  /\ millis = 0
  /\ setupEnd = 0
  /\ boots = 0
  /\ presses = 0
  /\ frames = 0
  /\ pings = 0
  /\ \E p \in {NoPrefs} \cup SavedPrefs : Is(StaticInit(p, RadioUnconfigured))

Boot == BootWith(CfgFrames)

Loop == LoopWith(CfgFrames \cup OtherFrames, {}, Bodies, Levels, MaxPresses, MaxFrames, MaxRun)

Next == Boot \/ Loop \/ PowerCycle

Spec == Init /\ [][Next]_vars

----------------------------------------------------------------------------
(* Properties of the configuration sync *)

Committed == <<currentFreq, currentBW, currentSF, currentCR, currentTxPower>>

PendingTarget == <<pendingFreq, pendingBW, pendingSF, pendingCR, pendingTxPower>>

Indices == <<currentSfIndex, currentBwIndex, currentTxIndex>>

PersistedParams == <<prefs.freq, prefs.bw, prefs.sf, prefs.cr, prefs.tx>>

RadioAsTuple == <<radio.freq, radio.bw, radio.sf, radio.cr, radio.tx>>

FrameValues(frame) == <<frame.F, frame.BW, frame.SF, frame.CR, frame.TX>>

WellFormedCfg(frame) == frame.type = "CFG" /\ frame.n = 5

MalformedCfg(frame) == frame.type = "CFG" /\ frame.n < 5

(* C1: while a config broadcast is pending, every CFG frame the node sends   *)
(* carries the pending target, and the committed parameters and the live     *)
(* radio keep their values; they become the target only in the step in which *)
(* the remaining-retransmit count reaches zero.                              *)
C1_PendingBroadcastFrames ==
  [][(pc = "loop" /\ pc' = "loop" /\ pendingConfigBroadcast) =>
       /\ \A i \in DOMAIN obs'.sent :
            obs'.sent[i].type = "CFG" => FrameValues(obs'.sent[i]) = PendingTarget'
       /\ pendingConfigBroadcast' => Committed' = Committed /\ radio' = radio
       /\ ~pendingConfigBroadcast' => cfgRemaining' = 0 /\ Committed' = PendingTarget]_vars

(* the frame the previous step honoured, when it honoured one *)
AppliedBefore(frame) ==
  \/ obs.step = "loop" /\ obs.rx = frame
  \/ /\ obs.step = "boot" /\ obs.excursion = "listen_applied"
     /\ obs.heard[Len(obs.heard)] = frame

(* C2, as the code has it: after a loop step that received a well-formed CFG *)
(* frame the committed and the persisted parameters are the frame's five     *)
(* values, nothing was sent, the radio setters were called with them and the *)
(* radio holds those the setters accepted (all five when none failed); the   *)
(* same frame received again leaves the committed parameters as they were.   *)
C2_ValidCfgApplied ==
  [][(obs'.step = "loop" /\ WellFormedCfg(obs'.rx)) =>
       /\ Committed' = FrameValues(obs'.rx)
       /\ PersistedParams' = FrameValues(obs'.rx)
       /\ obs'.sent = <<>>
       /\ obs'.setters \in 0..5
       /\ \A i \in 1..obs'.setters : RadioAsTuple'[i] = FrameValues(obs'.rx)[i]
       /\ AppliedBefore(obs'.rx) => Committed' = Committed]_vars

(* C2 witness: a valid frame was received, every setter succeeded and the    *)
(* committed, persisted and live parameters are the frame's, replacing others *)
C2_Witness ==
  /\ obs.step = "loop" /\ WellFormedCfg(obs.rx) /\ obs.setters = 5
  /\ Committed = FrameValues(obs.rx) /\ RadioAsTuple = FrameValues(obs.rx)
  /\ PersistedParams = FrameValues(obs.rx)
  /\ currentSF # LORA_SF

(* C2 as stated: after the step the radio has been reconfigured to the       *)
(* frame's values, along with the committed and persisted parameters         *)
C2_AsStated ==
  (obs.step = "loop" /\ WellFormedCfg(obs.rx)) =>
     /\ Committed = FrameValues(obs.rx)
     /\ PersistedParams = FrameValues(obs.rx)
     /\ obs.sent = <<>>
     /\ RadioAsTuple = FrameValues(obs.rx)

(* C3: a CFG frame from which fewer than five fields parse leaves the        *)
(* committed parameters, the table indices and the persisted parameters      *)
(* unchanged and reconfigures nothing, in the loop's receive handler (the    *)
(* step's own button-driven local cycle aside) and in the boot-time listen   *)
(* (where the parameters stay those loaded from the persisted keys).         *)
C3_MalformedCfgIgnored ==
  [][/\ (obs'.step = "loop" /\ MalformedCfg(obs'.rx)
           /\ obs'.btn \notin {"local_sf", "local_bw"}) =>
          /\ Committed' = Committed /\ Indices' = Indices
          /\ PersistedParams' = PersistedParams
          /\ radio' = radio /\ obs'.setters = -1
     /\ (obs'.step = "boot" /\ obs'.heard # <<>>
           /\ \A i \in DOMAIN obs'.heard : MalformedCfg(obs'.heard[i])) =>
          LET w == SetupInit(prefs, radio, build.roleSender, "ok")
          IN  /\ Committed' = <<w.currentFreq, w.currentBW, w.currentSF,
                                 w.currentCR, w.currentTxPower>>
              /\ Indices' = <<w.currentSfIndex, w.currentBwIndex, w.currentTxIndex>>
              /\ prefs' = prefs
              /\ obs'.excursion = "listen"]_vars

(* C3 witness: the loop received a CFG frame of which four fields scan, all  *)
(* four different from the committed values, and ignored it                  *)
C3_Witness ==
  /\ obs.step = "loop" /\ MalformedCfg(obs.rx) /\ obs.rx.n = 4
  /\ obs.rx.F # currentFreq /\ obs.rx.BW # currentBW
  /\ obs.rx.SF # currentSF /\ obs.rx.CR # currentCR

Range(table) == {table[i] : i \in DOMAIN table}

(* C5: in every reachable state the committed bandwidth, spreading factor    *)
(* and TX power are entries of their tables                                  *)
C5_TableMembership ==
  /\ currentBW \in Range(bwValues)
  /\ currentSF \in Range(sfValues)
  /\ currentTxPower \in Range(txPowerValues)

(* C6: on return from a control-channel excursion the radio holds the node's *)
(* current parameters, whatever the radio calls returned                     *)
C6_ExcursionRestoresRadio ==
  (obs.step = "boot" /\ obs.excursion # "none") =>
     RadioAsTuple = Committed

----------------------------------------------------------------------------
(* The CFG text: the sender formats, the receiver parses *)

(* valid RadioParameters: frequency and coding rate as the radio takes them, *)
(* the other three from the tables; all in hundredths where they are floats  *)
RtFreqs == {LORA_FREQ_MHZ, 86810}

RtCodingRates == {5, 6, 7, 8}

RtParams ==
  [f : RtFreqs, bw : Range(bwValues), sf : Range(sfValues), cr : RtCodingRates,
   tx : Range(txPowerValues)]

InitRT ==
  /\ build \in Builds
  /\ \E v \in RtParams : rt = [phase |-> "params", v |-> v]
  /\ pc = "rt"
  /\ millis = 0 /\ setupEnd = 0 /\ boots = 0 /\ presses = 0 /\ frames = 0 /\ pings = 0
  /\ Is(StaticInit(NoPrefs, RadioUnconfigured))

(* the sender's snprintf, lines 639-640 *)
RtFormat ==
  /\ rt.phase = "params"
  /\ rt' = [phase |-> "text", v |-> rt.v,
            msg |-> FormatCfg(rt.v.f, rt.v.bw, rt.v.sf, rt.v.cr, rt.v.tx)]
  /\ UNCHANGED <<pc, build, millis, setupEnd, boots, presses, frames, pings, isSender, seq,
                 lastButtonState, buttonPressMs, buttonPressed, currentFreq, currentBW,
                 currentSF, currentCR, currentTxPower, currentSfIndex, currentBwIndex,
                 currentTxIndex, pendingConfigBroadcast, pendingFreq, pendingBW,
                 pendingSF, pendingCR, pendingTxPower, cfgLastTxMs, cfgRemaining,
                 lastTxMs, lastRxMs, loraOtaActive, loraOtaStartTime, loraOtaTimeout,
                 loraOtaBufferSize, loraOtaExpectedSize, loraOtaReceivedSize,
                 hasStoredFirmware, storedFirmwareSize, prefs,
                 radio, obs, otaAnnounced, otaCarried>>

(* the receiver's sscanf, lines 711-716, on a node holding the defaults *)
RtParse ==
  /\ rt.phase = "text"
  /\ rt' = [phase |-> "parsed", v |-> rt.v,
            got |-> ScanCfg(rt.msg, currentFreq, currentBW, currentSF, currentCR,
                            currentTxPower)]
  /\ UNCHANGED <<pc, build, millis, setupEnd, boots, presses, frames, pings, isSender, seq,
                 lastButtonState, buttonPressMs, buttonPressed, currentFreq, currentBW,
                 currentSF, currentCR, currentTxPower, currentSfIndex, currentBwIndex,
                 currentTxIndex, pendingConfigBroadcast, pendingFreq, pendingBW,
                 pendingSF, pendingCR, pendingTxPower, cfgLastTxMs, cfgRemaining,
                 lastTxMs, lastRxMs, loraOtaActive, loraOtaStartTime, loraOtaTimeout,
                 loraOtaBufferSize, loraOtaExpectedSize, loraOtaReceivedSize,
                 hasStoredFirmware, storedFirmwareSize, prefs,
                 radio, obs, otaAnnounced, otaCarried>>

NextRT == RtFormat \/ RtParse

SpecRT == InitRT /\ [][NextRT]_vars

(* what a float comparison lets pass, in hundredths *)
FloatTolerance == 1

Near(a, b) == a - b <= FloatTolerance /\ b - a <= FloatTolerance

(* C4: formatting valid parameters as a CFG message and parsing the text     *)
(* gives back the five values, frequency and bandwidth within tolerance      *)
C4_CfgRoundTrip ==
  rt.phase = "parsed" =>
    /\ rt.got.parsed = 5
    /\ Near(rt.got.nf, rt.v.f) /\ Near(rt.got.nb, rt.v.bw)
    /\ rt.got.nsf = rt.v.sf /\ rt.got.ncr = rt.v.cr /\ rt.got.ntx = rt.v.tx

----------------------------------------------------------------------------
(* The OTA session of a node in Receiver role, fed OTA frames on the data    *)
(* channel                                                                   *)

MaxOtaFrames == 8          \* frames received in one run of loop()

(* OTA_START:<size>:<timeout> with both numbers, and with the first alone *)
OtaStartFrames ==
  {[type |-> "OTA_START", n |-> 2, size |-> 200, timeout |-> 1000],
   [type |-> "OTA_START", n |-> 2, size |-> 1200, timeout |-> OtaDefaultTimeoutMs],
   [type |-> "OTA_START", n |-> 1, size |-> 100, timeout |-> 0]}

(* OTA_DATA:<chunk>:<payload> carrying len image bytes, of which "%s" scans  *)
(* tok: all of them, or those before the first whitespace or zero byte       *)
(* and OTA_DATA:<chunk>: with nothing after the second colon                 *)
OtaDataFrames ==
  {[type |-> "OTA_DATA", n |-> 2, len |-> 200, tok |-> 200],
   [type |-> "OTA_DATA", n |-> 2, len |-> 200, tok |-> 120],
   [type |-> "OTA_DATA", n |-> 1, len |-> 0, tok |-> 0]}

OtaEndFrames == {[type |-> "OTA_END"]}

OtaFrames == OtaStartFrames \cup OtaDataFrames \cup OtaEndFrames

OtaBodies == {490, 990}

InitOta ==
  /\ build = [wifiOta |-> TRUE, roleSender |-> FALSE]
  /\ rt = RtIdle
  /\ pc = "boot"
  /\ millis = 0 /\ setupEnd = 0 /\ boots = 0 /\ presses = 0 /\ frames = 0 /\ pings = 0
  /\ Is(StaticInit(NoPrefs, RadioUnconfigured))

BootOta == BootWith({})

LoopOta == LoopWith(OtaFrames, {}, OtaBodies, {HIGH}, 0, MaxOtaFrames, MaxRun)

NextOta == BootOta \/ LoopOta

SpecOta == InitOta /\ [][NextOta]_vars

(* a loop step that handled frame type ty while the session was Active *)
OtaStepOn(ty) == loraOtaActive /\ obs'.step = "loop" /\ obs'.rx.type = ty

(* the firmware write was invoked in the step *)
Flashed(o) == o.flash # "none"

(* the session's deadline had passed when the step's frame was handled *)
PastDeadline(o) == Sub32(o.at, loraOtaStartTime) > loraOtaTimeout

(* C7: the firmware write is invoked only in a step in which the session is  *)
(* Active, the frame handled is OTA_END and the received-byte counter is at  *)
(* least the size the session's OTA_START announced                          *)
C7_FlashOnlyWhenComplete ==
  [][(obs'.step = "loop" /\ Flashed(obs')) =>
       /\ OtaStepOn("OTA_END")
       /\ loraOtaReceivedSize >= otaAnnounced]_vars

(* C8: when the OTA_DATA frames received before the timeout carried exactly  *)
(* the announced number of bytes, the OTA_END that follows starts the flash  *)
C8_CompleteImageFlashes ==
  [][(OtaStepOn("OTA_END") /\ otaCarried = otaAnnounced /\ ~PastDeadline(obs')) =>
       Flashed(obs')]_vars

(* C9: an OTA_END that finds fewer bytes received than expected attempts no  *)
(* flash and leaves the session Active                                       *)
C9_PrematureEndStaysActive ==
  [][(OtaStepOn("OTA_END") /\ loraOtaReceivedSize < loraOtaExpectedSize
        /\ ~PastDeadline(obs')) =>
       ~Flashed(obs') /\ loraOtaActive']_vars

(* C10: once the session's timeout has elapsed the session is discarded and  *)
(* no flash is attempted for it, also when it is an OTA_END that is handled  *)
(* after the deadline                                                        *)
C10_TimeoutDiscards ==
  [][(loraOtaActive /\ obs'.step = "loop" /\ PastDeadline(obs')
        /\ ~(obs'.rx.type = "OTA_START" /\ obs'.rx.n = 2)) =>
       ~Flashed(obs') /\ ~loraOtaActive']_vars

(* the state of the OTA session *)
OtaSession ==
  <<loraOtaExpectedSize, loraOtaTimeout, loraOtaReceivedSize, loraOtaBufferSize,
    loraOtaStartTime, loraOtaActive>>

(* an OTA_START or OTA_DATA frame whose two fields do not both scan *)
MalformedOta(frame) == frame.type \in {"OTA_START", "OTA_DATA"} /\ frame.n < 2

(* C11: a step that handles an OTA frame that fails to parse leaves every    *)
(* field of the OTA session as it was, in an Idle and in an Active session   *)
(* (the step's own timeout check aside)                                      *)
C11_MalformedOtaChangesNothing ==
  [][(obs'.step = "loop" /\ MalformedOta(obs'.rx)
        /\ ~(loraOtaActive /\ PastDeadline(obs'))) =>
       OtaSession' = OtaSession]_vars

(* an OTA_START frame from which both integers scan *)
WellFormedStart(frame) == frame.type = "OTA_START" /\ frame.n = 2

C13_IdleIgnoresDataAndEnd ==
  [][(~loraOtaActive /\ obs'.step = "loop"
        /\ obs'.rx.type \in {"OTA_DATA", "OTA_END"}) =>
       /\ OtaSession' = OtaSession
       /\ ~Flashed(obs')
       /\ obs'.sent = <<>>
       /\ Committed' = Committed]_vars

(* a payload-carrying OTA_DATA has been handled by a node that has seen no   *)
(* OTA_START since boot                                                      *)
C13_Witness ==
  /\ obs.step = "loop" /\ obs.rx.type = "OTA_DATA" /\ obs.rx.n = 2
  /\ ~loraOtaActive /\ loraOtaExpectedSize = 0
  /\ loraOtaReceivedSize = 0 /\ loraOtaBufferSize = 0

(* C14: the buffer never holds more bytes than its capacity, and a step that *)
(* handles, in an Active session, an OTA_DATA frame whose payload does not   *)
(* fit in the room left drops it whole: buffer and received counter stay as  *)
(* they were and the session stays Active (the step's timeout check aside)   *)
C14_OverflowDroppedWhole ==
  /\ [](loraOtaBufferSize <= OtaBufferCapacity)
  /\ [][(OtaStepOn("OTA_DATA") /\ obs'.rx.n = 2 /\ ~PastDeadline(obs')
          /\ loraOtaBufferSize + obs'.rx.len > OtaBufferCapacity) =>
         /\ loraOtaBufferSize' = loraOtaBufferSize
         /\ loraOtaReceivedSize' = loraOtaReceivedSize
         /\ loraOtaActive']_vars

----------------------------------------------------------------------------
(* A node in Sender role while update notices are on its data channel *)

MaxNotices == 3            \* notices on the channel in one run of loop()

NoticeFrames == {[type |-> "FW_UPDATE_AVAILABLE"], [type |-> "UPDATE_NOW"]}

InitSender ==
  /\ build = [wifiOta |-> FALSE, roleSender |-> TRUE]
  /\ rt = RtIdle
  /\ pc = "boot"
  /\ millis = 0 /\ setupEnd = 0 /\ boots = 0 /\ presses = 0 /\ frames = 0 /\ pings = 0
  /\ Is(StaticInit(NoPrefs, RadioUnconfigured))

LoopSender == LoopWith({}, NoticeFrames, OtaBodies, {HIGH}, 0, MaxNotices, MaxRun)

NextSender == BootOta \/ LoopSender

SpecSender == InitSender /\ [][NextSender]_vars

(* the frame types transmitted in the step *)
SentTypes(o) == {o.sent[i].type : i \in 1..Len(o.sent)}

(* C15: a node in Sender role replies REQUEST_UPDATE in the loop iteration   *)
(* during which FW_UPDATE_AVAILABLE or UPDATE_NOW is delivered on its data   *)
(* channel (the reply is made by the handler of the notice, and nowhere else) *)
C15_SenderRequestsUpdate ==
  (obs.step = "loop" /\ isSender /\ obs.air \in NoticeFrames) =>
    "REQUEST_UPDATE" \in SentTypes(obs)

----------------------------------------------------------------------------
(* The firmware cascade: a node in Receiver role, built with WiFi OTA, that  *)
(* takes an upload and hears update requests                                 *)

MaxCascadeFrames == 2      \* frames received in one run of loop()
MaxCascadeHeard == 2       \* frames heard in one listen window
MaxCascadeRun == 32000     \* ms of loop() modelled after setup()

CascadeFrames == {[type |-> "REQUEST_UPDATE"], [type |-> "PING", seq |-> 0]}

CascadeBodies == {490}

LoopCascade ==
  LoopWith(CascadeFrames, {}, CascadeBodies, {HIGH}, 0, MaxCascadeFrames, MaxCascadeRun)

WifiOtaEnd == WifiOtaEndWith(CascadeFrames, MaxCascadeHeard, MaxRun)

NextCascade == BootOta \/ LoopCascade \/ WifiOtaEnd

SpecCascade == InitOta /\ [][NextCascade]_vars

(* the step handled a REQUEST_UPDATE: in loop(), or in the listen window *)
HeardRequest(o) ==
  \/ o.step = "loop" /\ o.rx.type = "REQUEST_UPDATE"
  \/ o.step = "upload" /\ \E i \in 1..Len(o.heard) : o.heard[i].type = "REQUEST_UPDATE"

(* the frames of the step's reply, in order: those sent from the first       *)
(* UPDATE_ACK or NO_FIRMWARE on                                              *)
ReplyTypes(o) ==
  LET R == {i \in 1..Len(o.sent) : o.sent[i].type \in {"UPDATE_ACK", "NO_FIRMWARE"}}
  IN  IF R = {} THEN <<>>
      ELSE LET first == CHOOSE i \in R : \A j \in R : i <= j
           IN  [k \in 1..(Len(o.sent) - first + 1) |-> o.sent[first + k - 1].type]

(* UPDATE_ACK, OTA_START, the OTA_DATA frames, OTA_END *)
IsTransfer(types) ==
  /\ Len(types) >= 3
  /\ types[1] = "UPDATE_ACK" /\ types[2] = "OTA_START"
  /\ types[Len(types)] = "OTA_END"
  /\ \A k \in 3..(Len(types) - 1) : types[k] = "OTA_DATA"

(* C16: a node in Receiver role that handles a REQUEST_UPDATE, in loop() or   *)
(* in the listen window after its availability broadcast, replies UPDATE_ACK *)
(* followed by the whole OTA transfer when it holds a stored image, and      *)
(* NO_FIRMWARE alone, with no UPDATE_ACK and no OTA frame, when it holds none *)
C16_RequestAnswered ==
  (HeardRequest(obs) /\ ~isSender) =>
    IF hasStoredFirmware
    THEN IsTransfer(ReplyTypes(obs))
    ELSE ReplyTypes(obs) = <<"NO_FIRMWARE">>

----------------------------------------------------------------------------
(* sendLoraOtaUpdate() applied to an image *)

MaxImageChunks == 3        \* chunks of the largest image sent

ImageSizes ==
  {0, 1, StoredHeaderLen + StoredDummyLen, OtaChunkSize, OtaChunkSize + 1,
   (MaxImageChunks - 1) * OtaChunkSize + 50}

(* images without a zero byte, with one in the first chunk, with one in the  *)
(* second chunk                                                              *)
Images ==
  {Image(size, {z \in zeros : z < size}) :
     size \in ImageSizes,
     zeros \in {{}, {StoredHeaderLen + StoredDummyNonZero}, {OtaChunkSize + 100}}}

InitSend ==
  /\ build = [wifiOta |-> TRUE, roleSender |-> FALSE]
  /\ rt \in [phase : {"image"}, image : Images, und : Undefined]
  /\ pc = "send"
  /\ millis = 0 /\ setupEnd = 0 /\ boots = 0 /\ presses = 0 /\ frames = 0 /\ pings = 0
  /\ \E role \in BOOLEAN :
       Is([StaticInit(NoPrefs, RadioUnconfigured) EXCEPT !.isSender = role])

(* one call of sendLoraOtaUpdate(rt.image) *)
Send ==
  /\ pc = "send"
  /\ \E w \in {sendLoraOtaUpdate([World EXCEPT !.obs = [NoObs EXCEPT !.step = "send"]],
                                  rt.image, rt.und)} :
       /\ Becomes(w)
       /\ pc' = IF w.restart THEN "boot" ELSE "sent"
  /\ UNCHANGED <<build, millis, setupEnd, boots, presses, frames, pings, rt>>

NextSend == Send

SpecSend == InitSend /\ [][NextSend]_vars

(* ceil(n / OtaChunkSize) *)
ChunksOf(n) == (n + OtaChunkSize - 1) \div OtaChunkSize

(* the frames of a complete transfer of image: OTA_START with its size, the  *)
(* chunks 0, 1, 2, ... each carrying the next OtaChunkSize bytes at most and *)
(* nothing else, OTA_END                                                     *)
IsTransferOf(sent, image) ==
  LET n == ChunksOf(image.size)
  IN  /\ Len(sent) = n + 2
      /\ sent[1].type = "OTA_START" /\ sent[1].n = 2 /\ sent[1].size = image.size
      /\ sent[n + 2].type = "OTA_END"
      /\ \A k \in 1..n :
            /\ sent[k + 1].type = "OTA_DATA"
            /\ sent[k + 1].chunk = k - 1
            /\ sent[k + 1].from = (k - 1) * OtaChunkSize
            /\ sent[k + 1].len = Min(OtaChunkSize, image.size - (k - 1) * OtaChunkSize)
            /\ sent[k + 1].extra = 0

(* C17: sendLoraOtaUpdate() returns, and in Receiver role it has transmitted *)
(* one OTA_START carrying the image size N, then ceil(N/200) OTA_DATA frames *)
(* numbered from 0 that carry the bytes 0..N-1 once each, in order, 200 at   *)
(* most per frame, then one OTA_END; in Sender role it has transmitted        *)
(* nothing                                                                    *)
C17_TransferFrames ==
  (obs.step = "send") =>
    /\ pc = "sent"
    /\ IF isSender THEN obs.sent = <<>> ELSE IsTransferOf(obs.sent, rt.image)

----------------------------------------------------------------------------
(* A node that boots in Sender role and whose button is pressed, its loop()  *)
(* iterations short (no transmission in them) or long                        *)

SyncBodies == {40, 990}

LoopSync == LoopWith({}, {}, SyncBodies, Levels, MaxPresses, 0, MaxRun)

NextSync == BootOta \/ LoopSync

SpecSync == InitSender /\ [][NextSync]_vars

(* the button handler of the step neither changed the role nor started a     *)
(* broadcast                                                                 *)
NoCyclePress(o) == o.btn \in {"none", "ignore"}

(* C18: while a broadcast is pending on a node in Sender role and no press   *)
(* intervenes, a loop() iteration either transmits nothing and leaves the    *)
(* broadcast as it is, or transmits one CFG frame with the pending target    *)
(* and counts the counter down by one; the counter starts at 8 when the      *)
(* broadcast is created, and the target is committed, the broadcast ending,  *)
(* in the very iteration that makes the eighth attempt and in no other       *)
C18_EightAttemptsThenCommit ==
  /\ [](pendingConfigBroadcast => cfgRemaining \in 1..CfgRepeats)
  /\ [][(obs'.step = "loop" /\ obs'.btn \in {"bcast_sf", "bcast_bw"}) =>
          /\ cfgRemaining' = CfgRepeats - Len(obs'.sent)
          /\ Len(obs'.sent) <= 1]_vars
  /\ [][(pendingConfigBroadcast /\ isSender /\ obs'.step = "loop"
           /\ NoCyclePress(obs')) =>
          \/ /\ obs'.sent = <<>>
             /\ UNCHANGED <<pendingConfigBroadcast, cfgRemaining, pendingFreq, pendingBW,
                             pendingSF, pendingCR, pendingTxPower, currentFreq,
                             currentBW, currentSF, currentCR, currentTxPower>>
          \/ /\ obs'.sent = <<FormatCfg(pendingFreq, pendingBW, pendingSF, pendingCR,
                                        pendingTxPower)>>
             /\ cfgRemaining' = cfgRemaining - 1
             /\ PendingTarget' = PendingTarget
             /\ IF cfgRemaining = 1
                THEN ~pendingConfigBroadcast' /\ Committed' = PendingTarget
                ELSE pendingConfigBroadcast' /\ Committed' = Committed]_vars

(* the eighth attempt of a broadcast that a press created has just been made: *)
(* the SF the press chose is committed                                       *)
C18_Witness ==
  /\ obs.step = "loop" /\ isSender /\ NoCyclePress(obs)
  /\ Len(obs.sent) = 1 /\ obs.sent[1].type = "CFG"
  /\ ~pendingConfigBroadcast /\ cfgRemaining = 0
  /\ currentSF # LORA_SF /\ Committed = PendingTarget

(* C19: a loop() iteration that transmits a CFG frame starts at least 300 ms *)
(* after the iteration that transmitted the CFG frame before it (while a     *)
(* broadcast is pending and has made an attempt, cfgLastTxMs is the start of *)
(* the iteration that made the last one), whatever presses come in between   *)
C19_CfgSpacing ==
  [][(pendingConfigBroadcast /\ cfgRemaining < CfgRepeats
        /\ obs'.step = "loop" /\ "CFG" \in SentTypes(obs')) =>
       Sub32(millis, cfgLastTxMs) >= CfgGapMs]_vars

(* C20: a config broadcast is pending only on a node in Sender role          *)
C20_PendingOnlyInSenderRole == pendingConfigBroadcast => isSender

----------------------------------------------------------------------------
(* Progress of the config broadcast.  The Arduino core calls loop() again    *)
(* whenever it returns, which is weak fairness of the loop action.  The run  *)
(* is MaxLiveRun ms long; a broadcast that is pending early enough for       *)
(* CfgRepeats more iterations to start has the time for all its attempts.    *)

MaxLiveRun == 9000         \* ms of loop() after setup()
MaxLivePresses == 2        \* button presses in that time
MaxLiveFrames == 1         \* frames received in that time

LiveBodies == {490}

(* a peer's OTA_START is on the channel at most MaxLiveFrames times; the     *)
(* node hears it only while it runs as Receiver                              *)
LoopLive ==
  LoopWith({[type |-> "OTA_START", n |-> 2, size |-> 1200,
             timeout |-> OtaDefaultTimeoutMs]},
           {}, LiveBodies, Levels, MaxLivePresses, MaxLiveFrames, MaxLiveRun)

(* ENABLED <<LoopLive>>_vars: an iteration that reads the button up can      *)
(* always be taken, and it advances the clock                                *)
LoopLiveEnabled == pc = "loop" /\ Sub32(millis, setupEnd) <= MaxLiveRun

NextLive == BootOta \/ LoopLive

(* setup() runs once the node is powered, and loop() is called again each    *)
(* time it returns: weak fairness of both, that of LoopLive written out with *)
(* its enabling condition                                                    *)
SpecLive ==
  /\ InitSender /\ [][NextLive]_vars
  /\ WF_vars(BootOta)
  /\ ([]<>(~LoopLiveEnabled) \/ []<><<LoopLive>>_vars)

(* C21: a broadcast that is pending on a node in Sender role, the button up, *)
(* is ended with the target it holds committed into the node's parameters,   *)
(* unless the node leaves the Sender role or the button is pressed again     *)
(* (a press re-creates the broadcast, and the same holds of the new one)     *)
C21_BroadcastCompletes ==
  /\ [][(pendingConfigBroadcast /\ ~pendingConfigBroadcast') =>
          Committed' = PendingTarget]_vars
  /\ \A n \in 0..MaxLivePresses :
       (pc = "loop" /\ pendingConfigBroadcast /\ isSender /\ presses = n
          /\ lastButtonState = HIGH
          /\ \A b \in LiveBodies :
               Sub32(millis, setupEnd) + CfgRepeats * (b + LoopDelayMs) <= MaxLiveRun)
       ~> (~pendingConfigBroadcast \/ ~isSender \/ presses > n)

(* the broadcast that a press created has completed: the press was the last  *)
(* one, the SF it chose is committed and PING has resumed                     *)
C21_Witness ==
  /\ pc = "loop" /\ isSender /\ presses = MaxLivePresses /\ lastButtonState = HIGH
  /\ ~pendingConfigBroadcast /\ currentSF # LORA_SF
  /\ "PING" \in SentTypes(obs)

(* C22: a loop() iteration transmits a PING only if, the button handled, the *)
(* node is in Sender role, no broadcast was or is pending, and the iteration *)
(* starts 2000 ms or more after lastTxMs; lastTxMs is the start of the       *)
(* iteration that made the last PING attempt or the last commit, whichever   *)
(* came later (it changes in those iterations only, to their start), and no  *)
(* step other than a loop() iteration transmits a PING                       *)
C22_PingOnlyWhenDue ==
  /\ [][("PING" \in SentTypes(obs')) =>
          /\ obs'.step = "loop" /\ isSender'
          /\ ~pendingConfigBroadcast /\ ~pendingConfigBroadcast'
          /\ Sub32(millis, lastTxMs) >= PingIntervalMs
          /\ Len(obs'.sent) = 1]_vars
  /\ [][(pc = "loop" /\ lastTxMs' # lastTxMs) =>
          /\ lastTxMs' = millis
          /\ \/ "PING" \in SentTypes(obs')
             \/ (pendingConfigBroadcast /\ ~pendingConfigBroadcast')]_vars
  /\ [][(pc = "loop" /\ (\/ "PING" \in SentTypes(obs')
                          \/ (pendingConfigBroadcast /\ ~pendingConfigBroadcast'))) =>
          lastTxMs' = millis]_vars

(* a PING that follows both an earlier PING and the commit of a broadcast    *)
(* that a press created                                                      *)
C22_Witness ==
  /\ obs.step = "loop" /\ "PING" \in SentTypes(obs) /\ isSender
  /\ seq >= 2 /\ presses = MaxLivePresses /\ currentSF # LORA_SF

(* C23: the PING frames of a run carry successive numbers: the first carries *)
(* the initial value 0 and each attempt carries one more than the attempt    *)
(* before it, so the k-th attempt since power-on carries k - 1 (modulo the   *)
(* width of the counter), and each iteration makes at most one attempt       *)
C23_PingNumbersSuccessive ==
  [][\A i \in 1..Len(obs'.sent) :
       obs'.sent[i].type = "PING" =>
         /\ obs'.sent[i].seq = pings % WordModulus
         /\ pings' = pings + 1]_vars

----------------------------------------------------------------------------
(* app_logic: classifyPress() and cycleIndex() applied to their arguments.   *)
(* A uint32_t argument ranges over 0 .. WordModulus - 1 here.                *)

IntMax == 2147483647       \* INT_MAX

MaxIndex == 12             \* largest ordinary currentIndex tried
MaxSize == 10              \* largest size tried

classifyPressInclusive(pressDurationMs) ==
  IF pressDurationMs <= DebounceMs THEN "Ignore"
  ELSE IF pressDurationMs <= ShortPressMs THEN "ToggleMode"
  ELSE IF pressDurationMs <= MediumPressMs THEN "CycleSF"
  ELSE "CycleBW"

classifyPress(pressDurationMs) ==
  IF pressDurationMs < DebounceMs THEN "Ignore"
  ELSE IF pressDurationMs < ShortPressMs THEN "ToggleMode"
  ELSE IF pressDurationMs < MediumPressMs THEN "CycleSF"
  ELSE "CycleBW"

cycleIndexStuck(currentIndex, size, overflow) == 0

(* currentIndex + 1 overflows for INT_MAX, which is undefined: overflow is   *)
(* what the build returns then                                               *)
cycleIndex(currentIndex, size, overflow) ==
  IF size <= 0 THEN 0
  ELSE IF currentIndex = IntMax THEN overflow
  ELSE LET next == currentIndex + 1
       IN  IF next >= size THEN 0 ELSE next

InitLogic ==
  /\ build = [wifiOta |-> FALSE, roleSender |-> TRUE]
  /\ \/ rt \in [phase : {"press"},
                 pressDurationMs :
                   {0, 1, DebounceMs - 1, DebounceMs, DebounceMs + 1, ShortPressMs - 1,
                    ShortPressMs, ShortPressMs + 1, MediumPressMs - 1, MediumPressMs,
                    MediumPressMs + 1, WordModulus - 1}]
     \/ rt \in [phase : {"index"}, currentIndex : (-3..MaxIndex) \cup {IntMax},
                 size : -1..MaxSize, overflow : {0, -IntMax - 1}]
  /\ pc = "logic"
  /\ millis = 0 /\ setupEnd = 0 /\ boots = 0 /\ presses = 0 /\ frames = 0 /\ pings = 0
  /\ Is(StaticInit(NoPrefs, RadioUnconfigured))

ClassifyPress ==
  /\ pc = "logic" /\ rt.phase = "press"
  /\ rt' = [phase |-> "pressed", pressDurationMs |-> rt.pressDurationMs,
            action |-> classifyPress(rt.pressDurationMs)]
  /\ pc' = "done"
  /\ Becomes(World)
  /\ UNCHANGED <<build, millis, setupEnd, boots, presses, frames, pings>>

CycleIndex ==
  /\ pc = "logic" /\ rt.phase = "index"
  /\ rt' = [phase |-> "cycled", currentIndex |-> rt.currentIndex, size |-> rt.size,
            next |-> cycleIndex(rt.currentIndex, rt.size, rt.overflow)]
  /\ pc' = "done"
  /\ Becomes(World)
  /\ UNCHANGED <<build, millis, setupEnd, boots, presses, frames, pings>>

NextLogic == ClassifyPress \/ CycleIndex

SpecLogic == InitLogic /\ [][NextLogic]_vars

(* C25: classifyPress returns, for every duration d of the width, Ignore     *)
(* when d < 100, ToggleMode when 100 <= d < 1000, CycleSF when               *)
(* 1000 <= d < 3000 and CycleBW when d >= 3000, up to the largest value;     *)
(* the call leaves the node's state as it was                                *)
C25_ClassifyPressTotal ==
  rt.phase = "pressed" =>
    /\ rt.action = CASE rt.pressDurationMs \in 0..99 -> "Ignore"
                     [] rt.pressDurationMs \in 100..999 -> "ToggleMode"
                     [] rt.pressDurationMs \in 1000..2999 -> "CycleSF"
                     [] rt.pressDurationMs \in 3000..(WordModulus - 1) -> "CycleBW"
    /\ Is(StaticInit(NoPrefs, RadioUnconfigured))

(* the largest duration has been classified *)
C25_Witness ==
  rt.phase = "pressed" /\ rt.pressDurationMs = WordModulus - 1 /\ rt.action = "CycleBW"

(* C27: cycleIndex returns an index of the table, 0 <= index < size, for     *)
(* every currentIndex and every size > 0, and 0 for every size <= 0          *)
C27_CycleIndexInRange ==
  rt.phase = "cycled" =>
    IF rt.size > 0 THEN rt.next >= 0 /\ rt.next < rt.size ELSE rt.next = 0

(* cycleIndex applied n times *)
RECURSIVE CycleTimes(_, _, _)
CycleTimes(index, size, n) ==
  IF n = 0 THEN index ELSE CycleTimes(cycleIndex(index, size, 0), size, n - 1)

(* the cycle operation of the node applied n times: a release of the button *)
(* after pressDuration ms; on a Sender the release starts a broadcast, and  *)
(* the broadcast runs to its commit before the next release                  *)
RECURSIVE CyclePresses(_, _, _, _)
CyclePresses(w, pressDuration, wifiOta, n) ==
  IF n = 0 THEN w
  ELSE LET w1 == ButtonRelease(w, pressDuration, wifiOta, 5)
           w2 == IF w1.pendingConfigBroadcast /\ w1.isSender
                 THEN CommitPending(w1, 0, 5) ELSE w1
       IN  CyclePresses(w2, pressDuration, wifiOta, n - 1)

C28_PersistedMatchesCommitted ==
  pc = "loop" =>
    /\ Committed =
         <<IF prefs.freq = Absent THEN LORA_FREQ_MHZ ELSE prefs.freq,
           IF prefs.bw = Absent THEN LORA_BW_KHZ ELSE prefs.bw,
           IF prefs.sf = Absent THEN LORA_SF ELSE prefs.sf,
           IF prefs.cr = Absent THEN LORA_CR ELSE prefs.cr,
           IF prefs.tx = Absent THEN LORA_TX_DBM ELSE prefs.tx>>
    /\ isSender = IF prefs.sender = Absent THEN build.roleSender ELSE prefs.sender = 1
    /\ \A b0 \in BeginOutcomes :
         \E w \in {SetupInit(prefs, RadioUnconfigured, build.roleSender, b0)} :
           /\ <<w.currentFreq, w.currentBW, w.currentSF, w.currentCR, w.currentTxPower>>
                = Committed
           /\ w.isSender = isSender

(* a node built as Sender runs as Receiver with other parameters than the    *)
(* defaults after a power cycle                                              *)
C28_Witness ==
  /\ pc = "loop" /\ boots = MaxBoots /\ build.roleSender /\ ~isSender
  /\ currentSF # LORA_SF /\ prefs.sf = currentSF /\ prefs.sender = 0

(* C29: only setup() puts the radio on the control channel: no step after it *)
(* (a loop() iteration, the callback of a completed WiFi upload) listens on  *)
(* the control channel or transmits CFG frames on it                         *)
C29_ControlChannelOnlyAtBoot ==
  obs.step \in {"loop", "upload", "send"} =>
    /\ obs.excursion \notin {"listen", "listen_applied"}
    /\ ~(obs.excursion = "broadcast" /\ "CFG" \in SentTypes(obs))

(* C30: during a step at most one of the five radio activities is in         *)
(* progress: a PING is sent in the step; a config broadcast is pending       *)
(* before and after it; OTA frames are transmitted in it; an OTA receive     *)
(* session is Active before and after it; the step makes a control-channel  *)
(* excursion.  In particular no step leaves a session Active that has a      *)
(* broadcast pending, transmits OTA frames or sends a PING                   *)
C30_OneRadioActivity ==
  [][Cardinality(
       (IF "PING" \in SentTypes(obs') THEN {"ping"} ELSE {})
       \cup (IF pendingConfigBroadcast /\ pendingConfigBroadcast'
             THEN {"broadcast"} ELSE {})
       \cup (IF SentTypes(obs') \cap {"OTA_START", "OTA_DATA", "OTA_END"} # {}
             THEN {"ota_tx"} ELSE {})
       \cup (IF loraOtaActive /\ loraOtaActive' THEN {"ota_rx"} ELSE {})
       \cup (IF obs'.excursion # "none" THEN {"rendezvous"} ELSE {})) <= 1]_vars

----------------------------------------------------------------------------
(* The two listen windows, poll by poll: while (millis() - start < duration) *)
(* { radio.receive(rx); ...; delay(...); }.  rt holds the window: which one, *)
(* millis() at its start, and the time really spent in it (history).         *)

BootListenDelayMs == 50       \* delay(50) closing a poll of the boot window
CascadeListenDelayMs == 100   \* delay(100) closing a poll of the cascade window
CascadeAckDelayMs == 100      \* delay(100) after UPDATE_ACK

MaxPollMs == 900           \* longest time radio.receive() blocks

WindowOpenNoWrap(now, start, duration) == now < start + duration

(* millis() - start < duration, in uint32_t *)
WindowOpen(now, start, duration) == Sub32(now, start) < duration

InitWindow ==
  /\ build = [wifiOta |-> TRUE, roleSender |-> FALSE]
  /\ pc = "listen"
  /\ setupEnd = 0 /\ boots = 0 /\ presses = 0 /\ frames = 0 /\ pings = 0
  /\ \E w \in {SetupInit(NoPrefs, RadioUnconfigured, FALSE, "ok")} :
       \/ /\ millis = SetupSerialDelayMs + SetupDisplayDelayMs
          /\ rt = [kind |-> "boot", start |-> millis, duration |-> BootListenMs,
                   elapsed |-> 0, phase |-> "listening"]
          /\ Is([w EXCEPT !.radio = ControlCfg(w), !.obs.excursion = "listen"])
       \/ /\ millis \in {CascadeListenMs, WordModulus - CascadeListenMs \div 2,
                          WordModulus - 1}
          /\ rt = [kind |-> "cascade", start |-> millis, duration |-> CascadeListenMs,
                   elapsed |-> 0, phase |-> "listening"]
          /\ Is([storeCurrentFirmware(w) EXCEPT !.obs.step = "upload"])

(* the test of the while loop and, when it passes, one poll: radio.receive() *)
(* blocks for r ms and gives a frame or none; obs tells what the poll heard  *)
(* and sent                                                                  *)
ListenStep ==
  /\ pc = "listen"
  /\ IF ~WindowOpen(millis, rt.start, rt.duration)
     THEN /\ pc' = "loop"
          /\ rt' = [rt EXCEPT !.phase = "returned"]
          /\ millis' = millis
          /\ Becomes(World)
     ELSE \E r \in {BootListenDelayMs, MaxPollMs},
             rx \in IF rt.kind = "boot" THEN CfgFrames \cup {NoFrame, RxError}
                    ELSE {[type |-> "REQUEST_UPDATE"], [type |-> "PING", seq |-> 0],
                          NoFrame, RxError} :
          \E w0 \in {[World EXCEPT !.obs.heard = <<>>, !.obs.sent = <<>>]} :
          \E w \in {IF rx \in {NoFrame, RxError} THEN w0
                     ELSE IF rt.kind = "boot" THEN ListenLoop(w0, <<rx>>)
                     ELSE CascadeListen(w0, <<rx>>)} :
          \E spent \in {IF rt.kind = "boot"
                         THEN IF w.obs.excursion = "listen_applied" THEN r
                              ELSE r + BootListenDelayMs
                         ELSE r + CascadeListenDelayMs
                              + (IF rx.type = "REQUEST_UPDATE"
                                 THEN CascadeAckDelayMs ELSE 0)} :
            /\ Becomes(w)
            /\ millis' = Add32(millis, spent)
            /\ rt' = [rt EXCEPT !.elapsed = @ + spent,
                                !.phase = IF w.obs.excursion = "listen_applied"
                                          THEN "returned" ELSE @]
            /\ pc' = IF w.obs.excursion = "listen_applied" THEN "loop" ELSE pc
  /\ UNCHANGED <<build, setupEnd, boots, presses, frames, pings>>

NextWindow == ListenStep

(* the loop runs on: nothing in it waits for anything but the clock *)
SpecWindow == InitWindow /\ [][NextWindow]_vars /\ WF_vars(ListenStep)

(* C31: both listen windows return.  The boot window returns on the first    *)
(* CFG frame it honours, the cascade window never before 15 s have passed;   *)
(* without such a frame the window returns when a poll ends at or after the  *)
(* deadline, so less than one poll (the time radio.receive() blocks plus the *)
(* delays of the poll) after it, also when millis() wraps during the window  *)
C31_WindowsReturn ==
  /\ <>(rt.phase = "returned")
  /\ [](rt.elapsed < rt.duration + MaxPollMs
                        + (IF rt.kind = "boot" THEN BootListenDelayMs
                           ELSE CascadeListenDelayMs + CascadeAckDelayMs))
  /\ []((rt.phase = "returned" /\ rt.elapsed < rt.duration) =>
          (rt.kind = "boot" /\ obs.excursion = "listen_applied"))

(* the cascade window has returned after the clock wrapped in it *)
C31_Witness ==
  /\ rt.phase = "returned" /\ rt.kind = "cascade"
  /\ millis < rt.start /\ rt.elapsed >= CascadeListenMs

(* C31 as stated: the boot window returns no later than its 6 s deadline     *)
C31_ReturnsByDeadline ==
  (rt.phase = "returned" /\ rt.kind = "boot") => rt.elapsed <= BootListenMs

----------------------------------------------------------------------------
(* A node that boots in Receiver role, hears one CFG frame on the data       *)
(* channel and whose button is pressed twice                                 *)

MaxTurnRun == 5500

LoopTurn == LoopWith(PeerCfgFrames, {}, LiveBodies, Levels,
                     MaxLivePresses, MaxLiveFrames, MaxTurnRun)

NextTurn == BootOta \/ LoopTurn

SpecTurn == InitOta /\ [][NextTurn]_vars

(* the entry of a cycling table that follows v, the first following the last *)
Following(table, v) == table[((IndexOf(table, v, 0) + 1) % Len(table)) + 1]

InTable(table, v) == \E i \in 1..Len(table) : table[i] = v

(* C32: a medium or long press on a Sender creates a broadcast of eight      *)
(* attempts whose target is the committed parameters with the cycled field   *)
(* (SF for a medium press, bandwidth for a long one) replaced by the table   *)
(* entry that follows the committed value, the first entry following the     *)
(* last, whether or not an earlier broadcast was pending                     *)
C32_CyclePressTarget ==
  [][(obs'.step = "loop" /\ obs'.btn \in {"bcast_sf", "bcast_bw"}) =>
       /\ pendingConfigBroadcast'
       /\ cfgRemaining' + Len(obs'.sent) = CfgRepeats
       /\ IF obs'.btn = "bcast_sf"
          THEN /\ InTable(sfValues, currentSF)
               /\ <<pendingFreq', pendingBW', pendingSF', pendingCR', pendingTxPower'>>
                    = <<currentFreq, currentBW, Following(sfValues, currentSF),
                        currentCR, currentTxPower>>
          ELSE /\ InTable(bwValues, currentBW)
               /\ <<pendingFreq', pendingBW', pendingSF', pendingCR', pendingTxPower'>>
                    = <<currentFreq, Following(bwValues, currentBW), currentSF,
                        currentCR, currentTxPower>>]_vars

----------------------------------------------------------------------------
(* Two runs of a node in Receiver role fed the same OTA frames at the same   *)
(* times, the chunk index of each OTA_DATA frame chosen freely in either     *)
(* run.  The statics hold one run, rt.twin the other.                        *)

MaxChunk == 2              \* chunk indices 0..MaxChunk
MaxTwinFrames == 4         \* frames received in one run

InitTwin ==
  /\ build = [wifiOta |-> TRUE, roleSender |-> FALSE]
  /\ pc = "loop"
  /\ boots = 0 /\ presses = 0 /\ frames = 0 /\ pings = 0
  /\ \E w0 \in {SetupInit(NoPrefs, RadioUnconfigured, FALSE, "ok")} :
     \E w \in {SetupRendezvous(w0, <<>>, "ok", "ok")} :
       /\ millis = SetupDuration(w0, "ok")
       /\ setupEnd = millis
       /\ rt = [phase |-> "twin", twin |-> w, differ |-> FALSE]
       /\ Is(w)

(* "OTA_DATA:<chunk>:<payload>" with the chunk index written out *)
WithChunk(rx, chunk) ==
  IF rx.type = "OTA_DATA"
  THEN [type |-> "OTA_DATA", n |-> rx.n, len |-> rx.len, tok |-> rx.tok, chunk |-> chunk]
  ELSE rx

TwinStep ==
  /\ pc = "loop"
  /\ Sub32(millis, setupEnd) <= MaxRun
  /\ \E body \in LiveBodies, c1 \in 0..MaxChunk, c2 \in 0..MaxChunk, fw \in FlashOutcomes :
     \E rx \in IF frames < MaxTwinFrames /\ Sub32(millis, lastRxMs) >= RxIntervalMs
               THEN OtaFrames \cup {NoFrame} ELSE {NoFrame} :
     \E a \in {LoopBody(World, millis, HIGH, body, 5, 5, WithChunk(rx, c1), fw,
                        build.wifiOta)},
        b \in {LoopBody(rt.twin, millis, HIGH, body, 5, 5, WithChunk(rx, c2), fw,
                        build.wifiOta)} :
       /\ (rx.type # "OTA_DATA" => c1 = 0 /\ c2 = 0)
       /\ (a.obs.flash = "none" => fw = "ok")
       /\ Becomes(a)
       /\ rt' = [rt EXCEPT !.twin = b, !.differ = @ \/ c1 # c2]
       /\ pc' = IF a.restart THEN "boot" ELSE "loop"
       /\ millis' = Add32(millis, body + LoopDelayMs)
       /\ frames' = IF rx # NoFrame THEN frames + 1 ELSE frames
  /\ UNCHANGED <<build, setupEnd, boots, presses, pings>>

SpecTwin == InitTwin /\ [][TwinStep]_vars

(* C33: what an OTA_DATA frame does to the session depends on its payload    *)
(* and on the session, never on its chunk index: two runs fed the same       *)
(* frames that differ in chunk indices only are in the same state after      *)
(* every iteration of loop(), the frame read aside, and so buffer the same   *)
(* bytes and take the same decision to flash and restart                     *)
C33_ChunkIndexIgnored ==
  (rt.phase = "twin") =>
    /\ [rt.twin EXCEPT !.obs.rx = NoFrame, !.obs.air = NoFrame, !.restart = FALSE]
         = [World EXCEPT !.obs.rx = NoFrame, !.obs.air = NoFrame]
    /\ rt.twin.restart = (pc = "boot")

(* both runs flash an image whose chunks carried different indices *)
C33_Witness ==
  /\ rt.phase = "twin" /\ rt.differ
  /\ loraOtaBufferSize > 0 /\ rt.twin.loraOtaBufferSize > 0
  /\ obs.flash = "ok" /\ rt.twin.obs.flash = "ok"

----------------------------------------------------------------------------
(* C34: when the firmware write fails on OTA_END, in Update.begin() or in    *)
(* Update.end(), the node does not restart: loop() runs on with role,        *)
(* committed parameters and live radio as they were, and the session is      *)
(* Idle, so that a well-formed OTA_START handled next opens a new session    *)
(* with nothing received                                                     *)
C34_FlashFailureKeepsRunning ==
  /\ [][(obs'.step = "loop" /\ obs'.flash \in {"begin_failed", "end_failed"}) =>
          /\ pc' = "loop" /\ millis' # 0
          /\ ~loraOtaActive'
          /\ UNCHANGED <<isSender, currentFreq, currentBW, currentSF, currentCR,
                          currentTxPower, radio, prefs>>]_vars
  /\ []((obs.step = "loop" /\ obs.flash \in {"begin_failed", "end_failed"}) =>
          \A f \in {g \in OtaStartFrames : g.n = 2} :
            LET w == handleLoraOtaPacket(World, f, millis, "ok")
            IN  /\ w.loraOtaActive /\ w.loraOtaStartTime = millis
                /\ w.loraOtaReceivedSize = 0 /\ w.loraOtaBufferSize = 0
                /\ w.loraOtaExpectedSize = f.size)

(* Update.end() has failed on a buffered image and the node runs on *)
C34_Witness ==
  /\ obs.step = "loop" /\ obs.flash = "end_failed"
  /\ pc = "loop" /\ ~loraOtaActive /\ loraOtaBufferSize > 0

----------------------------------------------------------------------------
(* A Sender and a Receiver within range.  The statics hold the Sender, whose *)
(* button is pressed; rt.peer holds the Receiver, whose button is not, and   *)
(* which hears a frame the Sender transmits only while its radio is set as   *)
(* the Sender's, and then may still miss it.  rt.heard tells whether the     *)
(* Receiver has received a CFG frame of the Sender's latest broadcast.       *)

MaxPairRun == 14000

InitPair ==
  /\ build = [wifiOta |-> FALSE, roleSender |-> TRUE]
  /\ pc = "loop"
  /\ boots = 0 /\ presses = 0 /\ frames = 0 /\ pings = 0
  /\ \E p \in {NoPrefs} \cup SavedPrefs :
     \E s0 \in {SetupInit([p EXCEPT !.sender = Absent], RadioUnconfigured, TRUE, "ok")},
        r0 \in {SetupInit([p EXCEPT !.sender = Absent], RadioUnconfigured, FALSE, "ok")} :
       /\ millis = SetupDuration(r0, "ok")
       /\ setupEnd = millis
       /\ rt = [phase |-> "pair", heard |-> FALSE,
                peer |-> SetupRendezvous(r0, <<>>, "ok", "ok")]
       /\ Is(SetupRendezvous(s0, <<>>, "ok", "ok"))

PairStep ==
  /\ pc = "loop"
  /\ Sub32(millis, setupEnd) <= MaxPairRun
  /\ \E s \in Levels :
       /\ (s = LOW /\ lastButtonState = HIGH => presses < MaxPresses)
       /\ presses' = IF s = LOW /\ lastButtonState = HIGH THEN presses + 1 ELSE presses
       /\ \E a \in {LoopBody(World, millis, s, 990, 5, 5, NoFrame, "ok", FALSE)} :
          \E rx \in IF a.obs.sent # <<>> /\ rt.peer.radio = radio
                    THEN {a.obs.sent[1], NoFrame} ELSE {NoFrame} :
          \E b \in {LoopBody(rt.peer, millis, HIGH, 990, 5, 5, rx, "ok", TRUE)} :
            /\ Becomes(a)
            /\ rt' = [rt EXCEPT
                        !.peer = b,
                        !.heard = IF a.obs.btn \in {"bcast_sf", "bcast_bw"}
                                  THEN rx.type = "CFG"
                                  ELSE @ \/ (a.obs.sent # <<>> /\ rx.type = "CFG")]
            /\ millis' = Add32(millis, 990 + LoopDelayMs)
            /\ pings' = pings + Cardinality({i \in 1..Len(a.obs.sent) :
                                               a.obs.sent[i].type = "PING"})
  /\ UNCHANGED <<pc, build, setupEnd, boots, frames>>

SpecPair == InitPair /\ [][PairStep]_vars

(* C35: once the Sender has completed a broadcast of which the Receiver      *)
(* received at least one CFG frame, no button pressed since, the two nodes   *)
(* hold the same committed frequency, bandwidth, SF, coding rate and TX      *)
(* power, whatever target cycling has reached, 62.5 kHz included             *)
C35_PairInSync ==
  (rt.phase = "pair" /\ isSender /\ ~pendingConfigBroadcast /\ rt.heard) =>
    Committed = <<rt.peer.currentFreq, rt.peer.currentBW, rt.peer.currentSF,
                  rt.peer.currentCR, rt.peer.currentTxPower>>

----------------------------------------------------------------------------
(* C36: at every loop() boundary the three table indices agree with the      *)
(* committed values: sfValues[currentSfIndex] is the committed SF,           *)
(* bwValues[currentBwIndex] the committed bandwidth and                      *)
(* txPowerValues[currentTxIndex] the committed TX power                      *)
C36_IndicesMatchCommitted ==
  (pc = "loop") =>
    /\ sfValues[currentSfIndex + 1] = currentSF
    /\ bwValues[currentBwIndex + 1] = currentBW
    /\ txPowerValues[currentTxIndex + 1] = currentTxPower

----------------------------------------------------------------------------
(* A node that boots in Sender role with frames of every kind on its data    *)
(* channel, and whose button is pressed                                      *)

MaxAirFrames == 2          \* iterations of one run with a frame on the channel

LoopAir == LoopWith({}, CfgFrames \cup OtherFrames \cup OtaFrames \cup NoticeFrames,
                    LiveBodies, Levels, MaxPresses, MaxAirFrames, MaxRun)

NextAir == BootOta \/ LoopAir

SpecAir == InitSender /\ [][NextAir]_vars

----------------------------------------------------------------------------
----------------------------------------------------------------------------
(* C39: in every state the received-byte counter of the OTA session equals   *)
(* the number of bytes held in the session buffer, and both are below the    *)
(* capacity of the buffer, 1024, whatever OTA frames (well-formed,           *)
(* malformed, repeated, too large for the room left) and timeouts occur      *)
C39_CounterMatchesBuffer ==
  /\ loraOtaReceivedSize = loraOtaBufferSize
  /\ loraOtaBufferSize >= 0 /\ loraOtaBufferSize < OtaBufferCapacity

(* a sixth payload of 200 bytes has been dropped by a session holding 1000 *)
C39_Witness ==
  /\ obs.step = "loop" /\ obs.rx.type = "OTA_DATA" /\ obs.rx.tok = OtaChunkSize
  /\ loraOtaActive /\ loraOtaBufferSize = 1000 /\ otaCarried = 1200

----------------------------------------------------------------------------
(* The node when no radio configuration call fails: every radio.begin()      *)
(* returns RADIOLIB_ERR_NONE and so does every setter                        *)

(* the step is one in which every radio.begin() and every setter succeeded *)
NoFailureStep ==
  CASE obs'.step = "boot" ->
         /\ pc' = "loop"
         /\ World' = SetupRendezvous(SetupInit(prefs, radio, build.roleSender, "ok"),
                                     obs'.heard, "ok", "ok")
    [] obs'.step = "loop" ->
         obs'.setters \in {-1, 5} /\ obs'.btnSetters \in {-1, 5}
    [] obs'.step = "upload" ->
         World' = OnWifiOtaEnd([World EXCEPT !.obs = [NoObs EXCEPT !.step = "upload"]],
                               obs'.heard, "ok", "ok")
    [] OTHER -> TRUE

NextCalm == (Boot \/ Loop \/ WifiOtaEnd) /\ NoFailureStep

SpecCalm == Init /\ [][NextCalm]_vars

(* C40: provided no radio configuration call ever fails, at every loop()     *)
(* boundary the live radio configuration (frequency, bandwidth, SF, coding   *)
(* rate, TX power) equals the committed parameters, after boot rendezvous,   *)
(* received CFG frames, local cycle presses on a Receiver, Sender commits    *)
(* and cascade triggers                                                      *)
C40_RadioMatchesCommitted ==
  (pc = "loop") => RadioAsTuple = Committed

(* a Receiver that took a CFG frame in its boot listen is at a loop boundary *)
(* with parameters other than the factory ones                               *)
C40_Witness ==
  /\ pc = "loop" /\ obs.step = "boot" /\ obs.excursion = "listen_applied"
  /\ currentSF # LORA_SF /\ radio.sf = currentSF

====
